---------------------------- MODULE Spec2Model ----------------------------
(***************************************************************************)
(* Reasoncore Lite (src/reasoncore_lite.ts), its plugin host               *)
(* (src/plugins/api.ts) and the sparsity engine                            *)
(* (src/SINlite/core/sparsity/sparse_utils.ts) as a state machine.         *)
(*                                                                         *)
(* Numbers.  A JavaScript number is modelled in fixed point: the integer n *)
(* stands for n / Scale.  Finite numbers lie in -MaxFinite .. MaxFinite;   *)
(* MaxFinite plays the part of Number.MAX_VALUE, so a sum that leaves the  *)
(* finite range overflows to PosInf / NegInf as IEEE-754 addition does.    *)
(* NaN, PosInf and NegInf are three values outside the finite range.       *)
(* Products of two fixed-point numbers are rounded to the nearest unit.    *)
(* Math.sin, Math.cos, Math.exp and Math.sqrt are computed in fixed point  *)
(* (table with linear interpolation, Bhaskara's formula, integer root).    *)
(***************************************************************************)
EXTENDS Integers, Sequences, FiniteSets, TLC

Scale == 1000
MaxFinite == 1000000
PosInf == 1100000
NegInf == -1100000
NaN == 2000000

(***************************************************************************)
(* Number helpers                                                          *)
(***************************************************************************)
IsFinite(x) == x >= -MaxFinite /\ x <= MaxFinite

Abs(x) == IF x < 0 THEN -x ELSE x

MathMin(a, b) == IF a < b THEN a ELSE b

MathMax(a, b) == IF a > b THEN a ELSE b

\* a + b on JavaScript numbers (either may be non-finite).  MaxFinite stands
\* for Number.MAX_VALUE: a sum of two finite numbers overflows when both are
\* beyond half of it, and otherwise the smaller addend is absorbed
NumAdd(a, b) ==
  IF a = NaN \/ b = NaN THEN NaN
  ELSE IF (a = PosInf /\ b = NegInf) \/ (a = NegInf /\ b = PosInf) THEN NaN
  ELSE IF a = PosInf \/ b = PosInf THEN PosInf
  ELSE IF a = NegInf \/ b = NegInf THEN NegInf
  ELSE IF a + b > MaxFinite
    THEN (IF 2 * a > MaxFinite /\ 2 * b > MaxFinite THEN PosInf ELSE MaxFinite)
  ELSE IF a + b < -MaxFinite
    THEN (IF 2 * a < -MaxFinite /\ 2 * b < -MaxFinite THEN NegInf ELSE -MaxFinite)
  ELSE a + b

\* a * b on finite fixed-point numbers, rounded to the nearest unit; as in
\* floating point at these magnitudes, a product of non-zero factors is non-zero
NumMul(a, b) ==
  LET p == a * b
      m == (Abs(p) + (Scale \div 2)) \div Scale
      r == IF p # 0 /\ m = 0 THEN 1 ELSE m
  IN  IF p >= 0 THEN r ELSE -r

\* a * b where a may be non-finite and b is a finite weight (or NaN)
NumMulExt(a, b) ==
  IF a = NaN \/ b = NaN THEN NaN
  ELSE IF a = PosInf \/ a = NegInf THEN
         (IF b = 0 THEN NaN ELSE IF b > 0 THEN a ELSE -a)
  ELSE LET r == NumMul(a, b)
       IN  IF r > MaxFinite THEN PosInf
           ELSE IF r < -MaxFinite THEN NegInf ELSE r

\* a / b on finite fixed-point numbers, b # 0, rounded to the nearest unit
NumDiv(a, b) ==
  LET n == a * Scale
      d == Abs(b)
      q == IF n >= 0 THEN (n + (d \div 2)) \div d ELSE -(((-n) + (d \div 2)) \div d)
  IN  IF b > 0 THEN q ELSE -q

RECURSIVE SeqSum(_)
SeqSum(s) == IF s = <<>> THEN 0 ELSE NumAdd(Head(s), SeqSum(Tail(s)))

\* values.reduce((acc, value) => acc + value, 0): a left fold
RECURSIVE ReduceAdd(_, _)
ReduceAdd(acc, s) == IF s = <<>> THEN acc ELSE ReduceAdd(NumAdd(acc, Head(s)), Tail(s))

makeRange(min, max) == [min |-> min, max |-> max]

UNIT_RANGE == makeRange(0, Scale)

\* clamp (reasoncore_lite.ts): a non-finite value becomes range.min
clamp(value, range) ==
  IF ~IsFinite(value) THEN range.min
  ELSE MathMax(range.min, MathMin(range.max, value))

\* average (reasoncore_lite.ts)
average(values) ==
  IF Len(values) = 0 THEN 0
  ELSE NumDiv(ReduceAdd(0, values), Len(values) * Scale)

\* Math.tanh sampled every 0.25 on [0, 6] (TanhTable[i] = tanh((i-1)/4))
TanhTable ==
  << 0, 245, 462, 635, 762, 848, 905, 941, 964, 978, 987, 992, 995,
     997, 998, 999, 999, 1000, 1000, 1000, 1000, 1000, 1000, 1000, 1000 >>

\* stableTanh (reasoncore_lite.ts): 0 at 0, the argument limited to [-6, 6]
stableTanh(value) ==
  IF value = NaN THEN NaN
  ELSE IF value = 0 THEN 0
  ELSE LET limit == IF value > 0 THEN MathMin(value, 6 * Scale) ELSE MathMax(value, -6 * Scale)
           a     == Abs(limit)
           i     == a \div 250
           f     == a % 250
           lo    == TanhTable[i + 1]
           hi    == TanhTable[MathMin(i + 2, Len(TanhTable))]
           t     == lo + (((hi - lo) * f) \div 250)
       IN  IF limit > 0 THEN t ELSE -t

(***************************************************************************)
(* The contract                                                            *)
(***************************************************************************)
MAX_ITERATIONS == 8

\* the value `undefined` of an optional number
Undefined == 3000000

DEFAULT_CONTRACT ==
  [ version                  |-> "1.0.0",
    sparsityPolicyName       |-> "reasoncore-lite-default",
    maxActiveChannelsDrift   |-> 4,
    maxActiveChannelsEmotion |-> 6,
    maxActiveGlyphs          |-> 3,
    drift   |-> [ intensity |-> makeRange(-1000, 1000),
                  momentum  |-> makeRange(-8000, 8000),
                  anchor    |-> makeRange(0, 1000),
                  bias      |-> makeRange(-500, 500) ],
    bloom   |-> [ seeds    |-> makeRange(0, 512000),
                  density  |-> makeRange(0, 1000),
                  variance |-> makeRange(0, 1000) ],
    emotion |-> [ baseline |-> makeRange(-1000, 1000),
                  target   |-> makeRange(-1000, 1000) ],
    glyph   |-> [ contextuality |-> makeRange(0, 1000),
                  limit         |-> makeRange(1000, 8000) ],
    clampPolicy |-> [ drift   |-> [min |-> -1000, max |-> 1000, spikeThreshold |-> 80],
                      bloom   |-> makeRange(0, 970),
                      emotion |-> makeRange(-1000, 1000) ],
    prohibitedBehaviors |-> <<"drift-recursion", "collapse-triggers", "seal-imports">> ]

(***************************************************************************)
(* Drift engine                                                            *)
(***************************************************************************)
\* a variant whose projection is pulled back by the curl of the pass before
DriftStepCarried(n, driftClamp, st) ==
  LET blend     == Scale - n.anchor
      projected == NumMul(n.intensity, blend) + NumMul(n.momentum, 50) + n.bias
                     + 4 * st.overshootCurl
      clamped   == clamp(projected, driftClamp)
      delta     == projected - clamped
  IN  IF Abs(delta) > driftClamp.spikeThreshold
      THEN [ driftValue       |-> clamp(clamped + (-NumMul(delta, 250)), driftClamp),
             spikesFiltered   |-> TRUE,
             overshootApplied |-> TRUE,
             overshootCurl    |-> -NumMul(delta, 250),
             delta            |-> delta ]
      ELSE [ driftValue       |-> clamped,
             spikesFiltered   |-> st.spikesFiltered,
             overshootApplied |-> st.overshootApplied,
             overshootCurl    |-> st.overshootCurl,
             delta            |-> delta ]

\* a variant that curls back by the whole overshoot
DriftStepUndamped(n, driftClamp, st) ==
  LET blend     == Scale - n.anchor
      projected == NumMul(n.intensity, blend) + NumMul(n.momentum, 50) + n.bias
      clamped   == clamp(projected, driftClamp)
      delta     == projected - clamped
  IN  IF Abs(delta) > driftClamp.spikeThreshold
      THEN [ driftValue       |-> clamp(clamped + (-delta), driftClamp),
             spikesFiltered   |-> TRUE,
             overshootApplied |-> TRUE,
             overshootCurl    |-> -delta,
             delta            |-> delta ]
      ELSE [ driftValue       |-> clamped,
             spikesFiltered   |-> st.spikesFiltered,
             overshootApplied |-> st.overshootApplied,
             overshootCurl    |-> st.overshootCurl,
             delta            |-> delta ]

\* the result record of one pass of the loop body (lines 583-594)
DriftStep(n, driftClamp, st) ==
  LET blend     == Scale - n.anchor
      projected == NumMul(n.intensity, blend) + NumMul(n.momentum, 50) + n.bias
      clamped   == clamp(projected, driftClamp)
      delta     == projected - clamped
  IN  IF Abs(delta) > driftClamp.spikeThreshold
      THEN [ driftValue       |-> clamp(clamped + (-NumMul(delta, 250)), driftClamp),
             spikesFiltered   |-> TRUE,
             overshootApplied |-> TRUE,
             overshootCurl    |-> -NumMul(delta, 250),
             delta            |-> delta ]
      ELSE [ driftValue       |-> clamped,
             spikesFiltered   |-> st.spikesFiltered,
             overshootApplied |-> st.overshootApplied,
             overshootCurl    |-> st.overshootCurl,
             delta            |-> delta ]

\* a variant that reports the loop index instead of the number of passes
DriftResultBad(st, iteration) ==
  [ value            |-> st.driftValue,
    spikesFiltered   |-> st.spikesFiltered,
    overshootApplied |-> st.overshootApplied,
    overshootCurl    |-> st.overshootCurl,
    iterations       |-> iteration ]

\* the record returned at lines 597-603
DriftResult(st, iteration) ==
  [ value            |-> st.driftValue,
    spikesFiltered   |-> st.spikesFiltered,
    overshootApplied |-> st.overshootApplied,
    overshootCurl    |-> st.overshootCurl,
    iterations       |-> iteration + 1 ]

\* the for loop of computeDrift, from `iteration` on; DriftAfter is the test
\* at line 596 on the locals `s2` the body has just assigned
RECURSIVE DriftLoop(_, _, _, _)
DriftAfter(iteration, n, driftClamp, s2) ==
  IF Abs(s2.delta) <= driftClamp.spikeThreshold \/ iteration = MAX_ITERATIONS - 1
  THEN DriftResult(s2, iteration)
  ELSE DriftLoop(iteration + 1, n, driftClamp, s2)

DriftLoop(iteration, n, driftClamp, st) ==
  IF iteration < MAX_ITERATIONS
  THEN DriftAfter(iteration, n, driftClamp, DriftStep(n, driftClamp, st))
  ELSE [ value            |-> clamp(st.driftValue, driftClamp),
         spikesFiltered   |-> st.spikesFiltered,
         overshootApplied |-> st.overshootApplied,
         overshootCurl    |-> st.overshootCurl,
         iterations       |-> MAX_ITERATIONS ]

\* the normalised input (lines 577-580)
DriftNormalized(input, contract, pluginBias) ==
  [ bias      |-> clamp(NumAdd(input.bias, pluginBias), contract.drift.bias),
    anchor    |-> clamp(input.anchor, contract.drift.anchor),
    momentum  |-> clamp(input.momentum, contract.drift.momentum),
    intensity |-> clamp(input.intensity, contract.drift.intensity) ]

\* the locals before the loop (lines 572-575)
DriftLocals ==
  [ driftValue |-> 0, spikesFiltered |-> FALSE, overshootApplied |-> FALSE,
    overshootCurl |-> 0, delta |-> 0 ]

computeDrift(input, contract, pluginBias) ==
  DriftLoop(0, DriftNormalized(input, contract, pluginBias),
            contract.clampPolicy.drift, DriftLocals)

(***************************************************************************)
(* Math.sqrt, Math.sin, Math.cos in fixed point                            *)
(***************************************************************************)
\* the integer square root of x by bisection on lo .. hi
RECURSIVE ISqrt(_, _, _)
ISqrt(x, lo, hi) ==
  IF lo >= hi THEN lo
  ELSE LET mid == (lo + hi + 1) \div 2
       IN  IF mid * mid <= x THEN ISqrt(x, mid, hi) ELSE ISqrt(x, lo, mid - 1)

\* Math.sqrt(variance + 1e-6) for a fixed-point variance in [0, 1]
SqrtVariance(variance) == ISqrt(variance * Scale + 1, 0, 2 * Scale)

\* Bhaskara's approximation of sin on [0, pi], r in thousandths of a radian
SinHalfTurn(r) ==
  LET p == r * (3142 - r)
      d == (5 * 3142 * 3142 - 4 * p) \div 4000
  IN  MathMin(Scale, (4 * p) \div d)

\* Math.sin of x thousandths of a radian
MathSin(x) ==
  IF ~IsFinite(x) THEN NaN
  ELSE LET a == Abs(x) % 6283
           s == IF a <= 3142 THEN SinHalfTurn(a) ELSE -SinHalfTurn(MathMin(a - 3142, 3142))
       IN  IF x < 0 THEN -s ELSE s

\* Math.cos(x) = Math.sin(x + pi/2)
MathCos(x) == IF ~IsFinite(x) THEN NaN ELSE MathSin(x + 1571)

(***************************************************************************)
(* Bloom engine and emotion resolver                                       *)
(***************************************************************************)
RECURSIVE SeqMax(_)
SeqMax(s) == IF Len(s) = 1 THEN s[1] ELSE MathMax(Head(s), SeqMax(Tail(s)))

RECURSIVE SeqMin(_)
SeqMin(s) == IF Len(s) = 1 THEN s[1] ELSE MathMin(Head(s), SeqMin(Tail(s)))

\* baseProbability (lines 624-635)
BloomBaseProbability(input, contract, drift) ==
  LET seeds    == clamp(input.seeds, contract.bloom.seeds)
      density  == clamp(input.density, contract.bloom.density)
      variance == clamp(input.variance, contract.bloom.variance)
      normalizedSeeds == NumDiv(seeds, contract.bloom.seeds.max)
      driftInfluence  == NumMul(200, stableTanh(drift.value * 2))
  IN  Abs(NumMul(420, normalizedSeeds) + NumMul(380, density)
          + NumMul(200, SqrtVariance(variance)) + driftInfluence)

\* a variant that takes the plugin floor and ceiling as they come
BloomEnvelopeUnclamped(contractBloom, floors, ceilings) ==
  LET pluginFloor   == IF Len(floors) > 0 THEN SeqMax(floors) ELSE contractBloom.min
      pluginCeiling == IF Len(ceilings) > 0 THEN SeqMin(ceilings) ELSE contractBloom.max
  IN  [ floor   |-> MathMin(pluginFloor, pluginCeiling),
        ceiling |-> MathMax(pluginFloor, pluginCeiling) ]

\* the floor/ceiling envelope (lines 638-645)
BloomEnvelope(contractBloom, floors, ceilings) ==
  LET pluginFloor   == IF Len(floors) > 0 THEN SeqMax(floors) ELSE contractBloom.min
      pluginCeiling == IF Len(ceilings) > 0 THEN SeqMin(ceilings) ELSE contractBloom.max
      normalizedFloor   == MathMax(contractBloom.min, MathMin(contractBloom.max, pluginFloor))
      normalizedCeiling == MathMax(contractBloom.min, MathMin(contractBloom.max, pluginCeiling))
  IN  [ floor   |-> MathMin(normalizedFloor, normalizedCeiling),
        ceiling |-> MathMax(normalizedFloor, normalizedCeiling) ]

computeBloomProbability(input, contract, drift, adjustments, floors, ceilings) ==
  LET baseProbability      == BloomBaseProbability(input, contract, drift)
      aggregatedAdjustment == ReduceAdd(0, adjustments)
      envelope             == BloomEnvelope(contract.clampPolicy.bloom, floors, ceilings)
      boundedProbability   == clamp(NumAdd(baseProbability, aggregatedAdjustment),
                                    [min |-> envelope.floor, max |-> envelope.ceiling])
  IN  [ probability |-> boundedProbability,
        clamps      |-> [ floor |-> envelope.floor, ceiling |-> envelope.ceiling,
                          adjustments |-> adjustments ],
        rationale   |-> IF Len(adjustments) > 0 THEN <<"plugin-adjustment">> ELSE <<>> ]

\* a variant that leaves the raw delta unbounded
EmotionBoundUnclamped(rawDelta, range) == rawDelta

\* boundedDelta (line 672)
EmotionBound(rawDelta, range) == clamp(rawDelta, range)

\* a variant that leaves the plugin adjustments out of the sum
resolveEmotionDeltaInputOnly(input, contract, adjustments, labels) ==
  LET baseline     == clamp(input.baseline, contract.emotion.baseline)
      target       == clamp(input.target, contract.emotion.target)
      rawDelta     == target - baseline
      boundedDelta == EmotionBound(rawDelta, contract.clampPolicy.emotion)
      magnitude    == Abs(boundedDelta)
  IN  [ delta        |-> boundedDelta,
        resolution   |-> IF magnitude < 120 THEN "stabilized"
                         ELSE IF magnitude < 450 THEN "muted" ELSE "amplified",
        labels       |-> labels,
        clampApplied |-> boundedDelta # rawDelta ]

resolveEmotionDelta(input, contract, adjustments, labels) ==
  LET baseline     == clamp(input.baseline, contract.emotion.baseline)
      target       == clamp(input.target, contract.emotion.target)
      rawDelta     == target - baseline + ReduceAdd(0, adjustments)
      boundedDelta == EmotionBound(rawDelta, contract.clampPolicy.emotion)
      magnitude    == Abs(boundedDelta)
  IN  [ delta        |-> boundedDelta,
        resolution   |-> IF magnitude < 120 THEN "stabilized"
                         ELSE IF magnitude < 450 THEN "muted" ELSE "amplified",
        labels       |-> labels,
        clampApplied |-> boundedDelta # rawDelta ]

(***************************************************************************)
(* Channel budgeting and cooldowns                                         *)
(***************************************************************************)
\* indices (0-based) of the non-zero entries, ascending
RECURSIVE ActiveFrom(_, _)
ActiveFrom(vector, i) ==
  IF i > Len(vector) THEN <<>>
  ELSE IF vector[i] # 0 THEN <<i - 1>> \o ActiveFrom(vector, i + 1)
  ELSE ActiveFrom(vector, i + 1)

deriveVectorActiveIndices(vector) == ActiveFrom(vector, 1)

\* a variant in which the higher index wins a tie
ChannelBeforeLastWins(values, i, j) ==
  \/ Abs(values[i]) > Abs(values[j])
  \/ Abs(values[i]) = Abs(values[j]) /\ i > j

\* the comparator of limitActiveChannels (lines 229-234): magnitude descending,
\* then index
ChannelBefore(values, i, j) ==
  \/ Abs(values[i]) > Abs(values[j])
  \/ Abs(values[i]) = Abs(values[j]) /\ i < j

\* values.map(...).sort(...) of limitActiveChannels: positions 1..Len, ranked
RECURSIVE RankChannels(_, _)
RankChannels(values, rest) ==
  IF rest = {} THEN <<>>
  ELSE LET best == CHOOSE i \in rest : \A j \in rest \ {i} : ChannelBefore(values, i, j)
       IN  <<best>> \o RankChannels(values, rest \ {best})

\* the loop that fills `keep` (lines 235-241): add, then stop at the budget
RECURSIVE KeepLoop(_, _, _)
KeepLoop(ranked, keep, maxActive) ==
  IF ranked = <<>> THEN keep
  ELSE LET k2 == keep \cup {Head(ranked)}
       IN  IF Cardinality(k2) >= maxActive THEN k2
           ELSE KeepLoop(Tail(ranked), k2, maxActive)

RECURSIVE SelectKept(_, _, _)
SelectKept(values, keep, i) ==
  IF i > Len(values) THEN <<>>
  ELSE IF i \in keep THEN <<values[i]>> \o SelectKept(values, keep, i + 1)
  ELSE SelectKept(values, keep, i + 1)

\* a variant that ignores the budget
limitActiveChannelsUnbounded(values, maxActive) ==
  [ values |-> values, vector |-> values, activeIndices |-> deriveVectorActiveIndices(values) ]

limitActiveChannels(values, maxActive) ==
  LET length == Len(values)
  IN  IF length = 0 THEN [ values |-> <<>>, vector |-> <<>>, activeIndices |-> <<>> ]
      ELSE IF maxActive = Undefined
        THEN [ values |-> values, vector |-> values,
               activeIndices |-> deriveVectorActiveIndices(values) ]
      ELSE IF maxActive <= 0
        THEN [ values |-> <<>>, vector |-> [i \in 1..length |-> 0], activeIndices |-> <<>> ]
      ELSE IF length <= maxActive
        THEN [ values |-> values, vector |-> values,
               activeIndices |-> deriveVectorActiveIndices(values) ]
      ELSE LET ranked == RankChannels(values, 1..length)
               keep   == KeepLoop(ranked, {}, maxActive)
               vector == [i \in 1..length |-> IF i \in keep THEN values[i] ELSE 0]
           IN  [ values |-> SelectKept(values, keep, 1),
                 vector |-> vector,
                 activeIndices |-> deriveVectorActiveIndices(vector) ]

ensureCooldownVector(vector, length) ==
  IF Len(vector) >= length THEN vector
  ELSE [i \in 1..length |-> IF i <= Len(vector) THEN vector[i] ELSE 0]

applyCooldownToValues(values, cooldowns) ==
  LET penalty(i) == clamp(IF i <= Len(cooldowns) THEN cooldowns[i] ELSE 0, UNIT_RANGE)
  IN  [ values   |-> [i \in 1..Len(values) |->
                        IF penalty(i) = 0 THEN values[i]
                        ELSE NumMul(values[i], Scale - penalty(i))],
        snapshot |-> [i \in 1..Len(values) |-> penalty(i)] ]

SeqToSet(s) == {s[i] : i \in 1..Len(s)}

SetMax(S) == CHOOSE x \in S : \A y \in S : y <= x

\* a variant in which the cooldown of an idle channel does not decay
updateCooldownTimersNoDecay(current, activeIndices, driftValue) ==
  LET normalizedDrift == MathMin(Scale, Abs(driftValue))
      spike  == 250 + NumMul(normalizedDrift, 500)
      active == SeqToSet(activeIndices)
      length == IF active = {} THEN Len(current)
                ELSE MathMax(Len(current), SetMax(active) + 1)
      kept(i) == IF i <= Len(current) THEN current[i] ELSE 0
  IN  [i \in 1..length |->
         IF (i - 1) \in active THEN MathMin(Scale, kept(i) + spike) ELSE kept(i)]

\* a variant that lets a spiked cooldown grow beyond 1
updateCooldownTimersUncapped(current, activeIndices, driftValue) ==
  LET normalizedDrift == MathMin(Scale, Abs(driftValue))
      decay  == 50 + NumMul(normalizedDrift, 150)
      spike  == 250 + NumMul(normalizedDrift, 500)
      active == SeqToSet(activeIndices)
      length == IF active = {} THEN Len(current)
                ELSE MathMax(Len(current), SetMax(active) + 1)
      decayed(i) == IF i <= Len(current) THEN MathMax(0, current[i] - decay) ELSE 0
  IN  [i \in 1..length |-> IF (i - 1) \in active THEN decayed(i) + spike ELSE decayed(i)]

\* updateCooldownTimers (lines 421-437)
updateCooldownTimers(current, activeIndices, driftValue) ==
  LET normalizedDrift == MathMin(Scale, Abs(driftValue))
      decay  == 50 + NumMul(normalizedDrift, 150)
      spike  == 250 + NumMul(normalizedDrift, 500)
      active == SeqToSet(activeIndices)
      length == IF active = {} THEN Len(current)
                ELSE MathMax(Len(current), SetMax(active) + 1)
      decayed(i) == IF i <= Len(current) THEN MathMax(0, current[i] - decay) ELSE 0
  IN  [i \in 1..length |->
         IF (i - 1) \in active THEN MathMin(Scale, decayed(i) + spike) ELSE decayed(i)]

(***************************************************************************)
(* Channel weights and the bloom update gate                               *)
(***************************************************************************)
\* Math.max(0.05, Math.min(1.5, value)); NaN stays NaN
clampWeight(value) ==
  IF value = NaN THEN NaN ELSE MathMax(50, MathMin(1500, value))

\* context.seeds % 97 (the sign of the dividend, NaN if not finite)
SeedRotation(seeds) ==
  IF ~IsFinite(seeds) THEN NaN
  ELSE LET r == Abs(seeds) % (97 * Scale)
       IN  NumDiv(IF seeds < 0 THEN -r ELSE r, 97 * Scale)

deriveBloomWeights(length, context) ==
  LET probability  == clamp(context.probability, UNIT_RANGE)
      density      == clamp(context.density, UNIT_RANGE)
      variance     == clamp(context.variance, UNIT_RANGE)
      seedRotation == SeedRotation(context.seeds)
      oscillator(i) == IF seedRotation = NaN THEN NaN
                       ELSE MathSin(i * (variance + Scale) + NumMul(seedRotation, 6283))
      weight(i) == IF oscillator(i) = NaN THEN NaN
                   ELSE NumMul(probability, 600) + NumMul(Scale - density, 300)
                        + NumMul(oscillator(i), 100)
  IN  [i \in 1..length |-> clampWeight(weight(i))]

deriveEmotionWeights(length, context) ==
  LET baseline  == context.baseline
      delta     == context.delta
      tanhDelta == stableTanh(NumMul(delta, 1800))
      tanhBase  == stableTanh(baseline)
      intensity == 500 + NumMul(400, tanhDelta)
      anchor    == IF tanhBase = NaN THEN NaN ELSE 400 + NumMul(300, tanhBase)
      oscillator(i) == MathCos(i * 350 + NumMul(delta, 500))
      weight(i) == IF anchor = NaN THEN NaN
                   ELSE intensity + NumMul(anchor, 500) + NumMul(oscillator(i), 100)
  IN  [i \in 1..length |-> clampWeight(weight(i))]

\* blendChannelWeights for the two sources the runtime passes
blendChannelWeights(length, sources) ==
  LET aggregate(i) == ReduceAdd(0, [k \in 1..Len(sources) |->
                                      IF Len(sources[k]) >= i THEN sources[k][i] ELSE 0])
      count(i)     == Cardinality({k \in 1..Len(sources) : Len(sources[k]) >= i})
  IN  [i \in 1..length |->
         IF count(i) = 0 THEN Scale
         ELSE IF aggregate(i) = NaN THEN NaN
         ELSE clampWeight(NumDiv(aggregate(i), count(i) * Scale))]

applyBloomUpdateGate(values, bloomProbability, bloomInput, contract) ==
  LET normalizedProbability == clamp(bloomProbability, UNIT_RANGE)
      normalizedDensity     == clamp(bloomInput.density, contract.bloom.density)
      normalizedVariance    == clamp(bloomInput.variance, contract.bloom.variance)
      rawRange   == contract.bloom.seeds.max - contract.bloom.seeds.min
      seedRange  == IF rawRange = 0 THEN Scale ELSE rawRange
      normalizedSeeds ==
        NumDiv(clamp(bloomInput.seeds, contract.bloom.seeds) - contract.bloom.seeds.min, seedRange)
      oscillator(i) == MathSin(NumMul(i * Scale + normalizedSeeds * 13, normalizedVariance + Scale))
      densityGate   == Scale - NumMul(normalizedDensity, 350)
      gate(i) == clamp(NumMul(normalizedProbability, 650) + NumMul(densityGate, 250)
                       + NumMul(oscillator(i), 100), UNIT_RANGE)
  IN  [i \in 1..Len(values) |-> IF values[i] = 0 THEN 0 ELSE NumMul(values[i], gate(i))]

(***************************************************************************)
(* Sparsity engine (sparse_utils.ts)                                       *)
(***************************************************************************)
\* pseudoRandom(index, seed) = frac(Math.sin(seed + index * 374761393)),
\* tabulated for index 0..5 and the seeds 0 (the default) and 7
PseudoRandomTable ==
  [ s \in {0, 7} |->
      IF s = 0 THEN << 0, 894, 802, 826, 42, 314 >>
      ELSE << 657, 969, 212, 222, 90, 961 >> ]

pseudoRandom(index, seed) ==
  PseudoRandomTable[IF seed = Undefined THEN 0 ELSE seed][index + 1]

\* Math.abs on a number that may be non-finite
MagnitudeOf(v) == IF v = NaN THEN NaN ELSE IF v = NegInf THEN PosInf ELSE Abs(v)

\* a variant of the comparator that breaks ties by index
RankBeforeByIndex(values, seed, i, j) ==
  LET mi == MagnitudeOf(values[i])
      mj == MagnitudeOf(values[j])
  IN  IF mi = NaN \/ mj = NaN THEN i < j
      ELSE \/ mi > mj
           \/ mi = mj /\ i < j

\* the comparator of rankEntries: magnitude descending, then tieBreaker
\* descending; a NaN difference compares as equal, and equal entries keep
\* their array order (Array.prototype.sort is stable)
RankBefore(values, seed, i, j) ==
  LET mi == MagnitudeOf(values[i])
      mj == MagnitudeOf(values[j])
      ti == pseudoRandom(i - 1, seed)
      tj == pseudoRandom(j - 1, seed)
  IN  IF mi = NaN \/ mj = NaN THEN i < j
      ELSE \/ mi > mj
           \/ mi = mj /\ ti > tj
           \/ mi = mj /\ ti = tj /\ i < j

RECURSIVE RankRest(_, _, _)
RankRest(values, seed, rest) ==
  IF rest = {} THEN <<>>
  ELSE LET best == CHOOSE i \in rest : \A j \in rest \ {i} : RankBefore(values, seed, i, j)
       IN  <<best>> \o RankRest(values, seed, rest \ {best})

\* rankEntries: the positions 1..Len(values), best first
rankEntries(values, seed) == RankRest(values, seed, 1..Len(values))

countActive(mask) == Cardinality({i \in 1..Len(mask) : mask[i]})

\* the selection loop of selectTopKMask over the ranked entries
RECURSIVE TopKLoop(_, _, _, _, _)
TopKLoop(values, ranked, limit, threshold, chosen) ==
  IF ranked = <<>> \/ Cardinality(chosen) >= limit THEN chosen
  ELSE LET e == Head(ranked)
           m == MagnitudeOf(values[e])
       IN  IF threshold # Undefined /\ m # NaN /\ m < threshold
           THEN TopKLoop(values, Tail(ranked), limit, threshold, chosen)
           ELSE TopKLoop(values, Tail(ranked), limit, threshold, chosen \cup {e})

selectTopKMask(values, k, ranked, threshold) ==
  LET limit  == MathMin(Len(values), MathMax(0, k))
      chosen == IF limit = 0 THEN {} ELSE TopKLoop(values, ranked, limit, threshold, {})
  IN  [i \in 1..Len(values) |-> i \in chosen]

selectThresholdMask(values, threshold) ==
  [i \in 1..Len(values) |->
     LET m == MagnitudeOf(values[i]) IN m # NaN /\ m >= threshold]

selectBlockMask(values, blockSize, threshold) ==
  LET length == Len(values)
      normalizedBlockSize == MathMax(1, blockSize)
      first(i)  == ((i - 1) \div normalizedBlockSize) * normalizedBlockSize + 1
      last(i)   == MathMin(length, first(i) + normalizedBlockSize - 1)
      aggregate(i) == ReduceAdd(0, [j \in 1..(last(i) - first(i) + 1) |->
                                      MagnitudeOf(values[first(i) + j - 1])])
      count(i)  == last(i) - first(i) + 1
      \* aggregate / count >= threshold
      meets(i)  == LET a == aggregate(i)
                   IN  IF a = NaN THEN FALSE
                       ELSE IF a = PosInf THEN TRUE
                       ELSE NumDiv(a, count(i) * Scale) >= threshold
  IN  [i \in 1..length |-> meets(i)]

\* Math.ceil(length * fraction) for a fixed-point fraction
CeilOfProduct(length, fraction) ==
  LET p == length * fraction
  IN  IF p >= 0 THEN (p + Scale - 1) \div Scale ELSE -((-p) \div Scale)

\* the `kept` / `active` loops of enforceFractions: walk the ranking, take the
\* entries that satisfy `eligible` until `need` of them are taken
RECURSIVE TakeRanked(_, _, _, _)
TakeRanked(ranked, eligible, need, taken) ==
  IF ranked = <<>> \/ need <= 0 THEN taken
  ELSE IF Head(ranked) \in eligible
       THEN TakeRanked(Tail(ranked), eligible, need - 1, taken \cup {Head(ranked)})
       ELSE TakeRanked(Tail(ranked), eligible, need, taken)

\* a variant that trims in array order instead of rank order
EnforceMaxByPosition(mask, ranked, policy) ==
  LET length   == Len(mask)
      limitRaw == CeilOfProduct(length, policy.maxActiveFraction)
      limit    == IF policy.maxActiveFraction = 0 THEN 0 ELSE MathMax(0, limitRaw)
      activeSet == {i \in 1..length : mask[i]}
  IN  IF policy.maxActiveFraction = Undefined THEN mask
      ELSE IF limit = 0 THEN [i \in 1..length |-> FALSE]
      ELSE IF countActive(mask) > limit
        THEN LET trimmed == TakeRanked([i \in 1..length |-> i], activeSet, limit, {})
             IN  [i \in 1..length |-> i \in trimmed]
      ELSE mask

\* the maxActiveFraction pass (lines 311-336)
EnforceMax(mask, ranked, policy) ==
  LET length   == Len(mask)
      limitRaw == CeilOfProduct(length, policy.maxActiveFraction)
      limit    == IF policy.maxActiveFraction = 0 THEN 0 ELSE MathMax(0, limitRaw)
      activeSet == {i \in 1..length : mask[i]}
  IN  IF policy.maxActiveFraction = Undefined THEN mask
      ELSE IF limit = 0 THEN [i \in 1..length |-> FALSE]
      ELSE IF countActive(mask) > limit
        THEN LET trimmed == TakeRanked(ranked, activeSet, limit, {})
             IN  [i \in 1..length |-> i \in trimmed]
      ELSE mask

\* the minActiveFraction pass (lines 337-359)
EnforceMin(mask, ranked, policy) ==
  LET length   == Len(mask)
      required == MathMax(0, CeilOfProduct(length, policy.minActiveFraction))
      target   == MathMin(required, length)
      active   == countActive(mask)
      inactive == {i \in 1..length : ~mask[i]}
  IN  IF policy.minActiveFraction = Undefined THEN mask
      ELSE IF target >= length THEN [i \in 1..length |-> TRUE]
      ELSE IF active < target
        THEN LET added == TakeRanked(ranked, inactive, target - active, {})
             IN  [i \in 1..length |-> mask[i] \/ i \in added]
      ELSE mask

enforceFractions(mask, ranked, policy) ==
  IF Len(mask) = 0 THEN mask
  ELSE EnforceMin(EnforceMax(mask, ranked, policy), ranked, policy)

\* Math.sign
MathSign(v) == IF v = NaN THEN NaN ELSE IF v > 0 THEN Scale ELSE IF v < 0 THEN -Scale ELSE 0

materializeValues(values, mask, keepMagnitude) ==
  [i \in 1..Len(values) |->
     IF ~mask[i] THEN 0
     ELSE IF keepMagnitude THEN values[i]
     ELSE MathSign(values[i])]

buildPolicySparsityResult(values, policy, keepMagnitude) ==
  IF Len(values) = 0 THEN [mask |-> <<>>, values |-> <<>>]
  ELSE LET ranked == rankEntries(values, policy.seed)
           mask ==
             IF policy.mode = "topk"
               THEN selectTopKMask(values,
                                   IF policy.k = Undefined THEN Len(values) ELSE policy.k,
                                   ranked, policy.threshold)
             ELSE IF policy.mode = "threshold"
               THEN selectThresholdMask(values,
                                   IF policy.threshold = Undefined THEN 0 ELSE policy.threshold)
             ELSE selectBlockMask(values,
                                   IF policy.blockSize = Undefined THEN Len(values)
                                   ELSE policy.blockSize,
                                   IF policy.threshold = Undefined THEN 0 ELSE policy.threshold)
           adjustedMask == enforceFractions(mask, ranked, policy)
       IN  [ mask |-> adjustedMask,
             values |-> materializeValues(values, adjustedMask, keepMagnitude) ]

sparsifyWithPolicyResult(values, policy) == buildPolicySparsityResult(values, policy, TRUE)

(***************************************************************************)
(* Snapshots, baseline and telemetry                                       *)
(***************************************************************************)
\* an optional value is a sequence of length 0 (undefined) or 1
None == <<>>
Some(x) == <<x>>

EmptyMap == [t \in {} |-> <<>>]

\* the `origin` field is history: which evaluate published the vectors
EMPTY_SNAPSHOT ==
  [ vectors |-> EmptyMap, telemetry |-> EmptyMap, baseline |-> None, origin |-> None ]

mergeSnapshotWithBaseline(snapshot, baseline) ==
  IF baseline = None THEN snapshot
  ELSE IF snapshot = None
    THEN Some([ vectors |-> EmptyMap, telemetry |-> EmptyMap,
                baseline |-> baseline, origin |-> None ])
  ELSE IF snapshot[1].baseline = baseline THEN snapshot
  ELSE Some([ vectors |-> snapshot[1].vectors, telemetry |-> snapshot[1].telemetry,
              baseline |-> baseline, origin |-> snapshot[1].origin ])

\* toBaselineTelemetryDetails: the baseline of every model run carries a tick
toBaselineTelemetryDetails(target, snapshot) ==
  IF snapshot = None THEN None
  ELSE LET b == snapshot[1]
           has == target \in DOMAIN b.targets
       IN  Some([ density       |-> IF has THEN b.targets[target].density ELSE Undefined,
                  activeIndices |-> IF has THEN b.targets[target].activeIndices ELSE <<>>,
                  tick          |-> b.tick,
                  sceneTags     |-> b.sceneTags ])

\* a variant that takes the baseline indices as they are
sanitizeActiveIndicesRaw(indices) == {indices[i] : i \in 1..Len(indices)}

\* sanitizeActiveIndices: the distinct indices max(0, trunc(entry)); the
\* sorted array without duplicates is represented by its set
sanitizeActiveIndices(indices) ==
  {MathMax(0, indices[i]) : i \in {j \in 1..Len(indices) : IsFinite(indices[j])}}

toTelemetryExtras(maxActive, activeCount, weights, cooldowns, baseline, liveActiveIndices) ==
  [ heldChannels      |-> IF maxActive # Undefined THEN MathMax(0, maxActive - activeCount)
                          ELSE Undefined,
    channelWeights    |-> weights,
    channelCooldowns  |-> cooldowns,
    baseline          |-> baseline,
    liveActiveIndices |-> liveActiveIndices ]

computeSparsityTelemetry(vector, policyName, target, extras) ==
  LET vectorLength  == Len(vector)
      activeCount   == Cardinality({i \in 1..vectorLength : vector[i] # 0})
      vectorDensity == IF vectorLength > 0
                       THEN NumDiv(activeCount * Scale, vectorLength * Scale) ELSE 0
      liveActiveIndices == IF Len(extras.liveActiveIndices) > 0
                           THEN extras.liveActiveIndices
                           ELSE deriveVectorActiveIndices(vector)
      hasBaseline   == extras.baseline # None
      baselineSet   == IF hasBaseline
                       THEN sanitizeActiveIndices(extras.baseline[1].activeIndices) ELSE {}
      hasIndices    == baselineSet # {}
      baselineDensity == IF hasBaseline /\ IsFinite(extras.baseline[1].density)
                         THEN extras.baseline[1].density ELSE Undefined
      liveSet       == SeqToSet(liveActiveIndices)
  IN  [ density       |-> vectorDensity,
        activeCount   |-> activeCount,
        vectorLength  |-> vectorLength,
        target        |-> target,
        policyName    |-> policyName,
        heldChannels  |-> IF extras.heldChannels = Undefined THEN 0 ELSE extras.heldChannels,
        channelWeights   |-> extras.channelWeights,
        channelCooldowns |-> extras.channelCooldowns,
        baselineDensity  |-> baselineDensity,
        densityDeltaFromBaseline |->
          IF baselineDensity # Undefined THEN vectorDensity - baselineDensity ELSE Undefined,
        baselineActiveCount |-> IF hasIndices THEN Cardinality(baselineSet) ELSE Undefined,
        activeDeltaFromBaseline |->
          IF hasIndices THEN activeCount - Cardinality(baselineSet) ELSE Undefined,
        missingBaselineActivations |->
          IF hasIndices THEN Cardinality(baselineSet \ liveSet) ELSE Undefined,
        unexpectedActivations |->
          IF hasIndices THEN Cardinality(liveSet \ baselineSet) ELSE Undefined,
        baselineSceneTags |-> IF hasBaseline THEN SeqToSet(extras.baseline[1].sceneTags) ELSE {},
        baselineTick  |-> IF hasBaseline THEN extras.baseline[1].tick ELSE Undefined ]

(***************************************************************************)
(* Glyph selector                                                          *)
(***************************************************************************)
BASE_GLYPHS ==
  << "solace", "ember", "lumen", "veil", "pulse", "echo", "strand", "harbor" >>

\* String.prototype.trim on the strings the model uses
Trim(str) ==
  CASE str = " spectral " -> "spectral"
    [] str = " echo"      -> "echo"
    [] str = "  "         -> ""
    [] OTHER              -> str

\* Math.round of a fixed-point number: floor(x + 0.5), as a count
MathRound(x) ==
  IF ~IsFinite(x) THEN x ELSE (x + (Scale \div 2)) \div Scale

\* Array.prototype.slice(0, end) for an end that may be NaN, infinite or negative
SliceTo(s, end) ==
  IF end = NaN \/ end = NegInf THEN <<>>
  ELSE IF end = PosInf THEN s
  ELSE IF end >= 0 THEN SubSeq(s, 1, MathMin(Len(s), end))
  ELSE SubSeq(s, 1, MathMax(0, Len(s) + end))

\* sanitizeStrings (api.ts): trimmed, non-empty, first occurrences only
RECURSIVE SanitizeFrom(_, _)
SanitizeFrom(input, clean) ==
  IF input = <<>> THEN clean
  ELSE LET trimmed == Trim(Head(input))
       IN  IF trimmed = "" \/ trimmed \in SeqToSet(clean)
           THEN SanitizeFrom(Tail(input), clean)
           ELSE SanitizeFrom(Tail(input), Append(clean, trimmed))

sanitizeStrings(input) == SanitizeFrom(input, <<>>)

limitGlyphSuggestions(suggestions, limit) ==
  IF limit = Undefined THEN suggestions
  ELSE IF limit <= 0 THEN <<>>
  ELSE SubSeq(suggestions, 1, MathMin(Len(suggestions), limit))

RECURSIVE FilterNonEmptyTrim(_)
FilterNonEmptyTrim(context) ==
  IF context = <<>> THEN <<>>
  ELSE IF Trim(Head(context)) # "" THEN <<Trim(Head(context))>> \o FilterNonEmptyTrim(Tail(context))
  ELSE FilterNonEmptyTrim(Tail(context))

\* the candidate loop of suggestGlyphs (lines 720-732)
RECURSIVE GlyphLoop(_, _, _, _, _, _)
GlyphLoop(candidates, selections, limit, contextuality, normalizedContext, pluginSuggestions) ==
  IF candidates = <<>> \/ Len(selections) >= limit THEN selections
  ELSE LET glyph  == Head(candidates)
           weight == IF glyph \in SeqToSet(normalizedContext) THEN 850 ELSE contextuality
       IN  IF glyph = "" \/ glyph \in SeqToSet(selections)
           THEN GlyphLoop(Tail(candidates), selections, limit, contextuality,
                          normalizedContext, pluginSuggestions)
           ELSE IF weight >= 200 \/ glyph \in SeqToSet(pluginSuggestions)
           THEN GlyphLoop(Tail(candidates), Append(selections, glyph), limit, contextuality,
                          normalizedContext, pluginSuggestions)
           ELSE GlyphLoop(Tail(candidates), selections, limit, contextuality,
                          normalizedContext, pluginSuggestions)

suggestGlyphs(input, contract, pluginSuggestions) ==
  LET contextuality     == clamp(input.contextuality, contract.glyph.contextuality)
      limit             == MathRound(clamp(input.limit, contract.glyph.limit))
      normalizedContext == FilterNonEmptyTrim(input.context)
      baseGlyphs        == normalizedContext \o BASE_GLYPHS
      allCandidates     == pluginSuggestions \o baseGlyphs
      selections        == GlyphLoop(allCandidates, <<>>, limit, contextuality,
                                     normalizedContext, pluginSuggestions)
  IN  SubSeq(selections, 1, MathMin(Len(selections), limit))

(***************************************************************************)
(* Inputs, plugins and runtime options explored by the model               *)
(***************************************************************************)
BaseInput ==
  [ drift   |-> [intensity |-> 350, momentum |-> 1200, anchor |-> 250, bias |-> 50],
    bloom   |-> [seeds |-> 144000, density |-> 550, variance |-> 300],
    emotion |-> [baseline |-> 100, target |-> 600],
    glyph   |-> [contextuality |-> 600, limit |-> 5000, context |-> <<"echo", "veil">>] ]

\* every field out of its contract range
NoisyInput ==
  [ drift   |-> [intensity |-> 9000, momentum |-> 18000, anchor |-> -5000, bias |-> 2000],
    bloom   |-> [seeds |-> 999000, density |-> 5000, variance |-> 5000],
    emotion |-> [baseline |-> -9000, target |-> 4000],
    glyph   |-> [contextuality |-> 7000, limit |-> 32000, context |-> <<"ghost", "ember">>] ]

\* every field NaN or infinite
NonFiniteInput ==
  [ drift   |-> [intensity |-> NaN, momentum |-> PosInf, anchor |-> NegInf, bias |-> NaN],
    bloom   |-> [seeds |-> PosInf, density |-> NaN, variance |-> NegInf],
    emotion |-> [baseline |-> NaN, target |-> PosInf],
    glyph   |-> [contextuality |-> NaN, limit |-> NaN, context |-> <<"  ", " echo">>] ]

Inputs == {BaseInput, NoisyInput, NonFiniteInput}

\* the input whose numeric fields are what clamp makes of the fields of `input`
ClampedInput(input, contract) ==
  [ drift   |-> [ intensity |-> clamp(input.drift.intensity, contract.drift.intensity),
                  momentum  |-> clamp(input.drift.momentum, contract.drift.momentum),
                  anchor    |-> clamp(input.drift.anchor, contract.drift.anchor),
                  bias      |-> clamp(input.drift.bias, contract.drift.bias) ],
    bloom   |-> [ seeds    |-> clamp(input.bloom.seeds, contract.bloom.seeds),
                  density  |-> clamp(input.bloom.density, contract.bloom.density),
                  variance |-> clamp(input.bloom.variance, contract.bloom.variance) ],
    emotion |-> [ baseline |-> clamp(input.emotion.baseline, contract.emotion.baseline),
                  target   |-> clamp(input.emotion.target, contract.emotion.target) ],
    glyph   |-> [ contextuality |-> clamp(input.glyph.contextuality, contract.glyph.contextuality),
                  limit         |-> clamp(input.glyph.limit, contract.glyph.limit),
                  context       |-> input.glyph.context ] ]

\* hook results; Undefined marks a field the hook did not set
ERet(delta, bias, label) == [delta |-> delta, bias |-> bias, label |-> label]
BRet(delta, floor, ceiling) == [delta |-> delta, floor |-> floor, ceiling |-> ceiling]
GRet(add) == [add |-> add]

Absent == [kind |-> "absent"]
Hook(kind, ret) == [kind |-> kind, ret |-> ret]
Plugin(name, onGlyph, onBloom, onEmotion) ==
  [name |-> name, glyph |-> onGlyph, bloom |-> onBloom, emotion |-> onEmotion]

\* what a hook of kind "fuzz" may return
FuzzReturns(pass) ==
  IF pass = "emotion"
    THEN { ERet(900, 900, "surge"), ERet(-2000, NegInf, ""), ERet(NaN, Undefined, "") }
  ELSE IF pass = "bloom"
    THEN { BRet(5000, 950, 1500), BRet(-200, 800, 300), BRet(MaxFinite, Undefined, NaN) }
  ELSE { GRet(<<" spectral ">>) }

limitedContract ==
  [DEFAULT_CONTRACT EXCEPT !.maxActiveChannelsEmotion = 2,
                           !.maxActiveChannelsDrift = 1,
                           !.maxActiveGlyphs = 2]

PUBLIC_CONTRACT ==
  [DEFAULT_CONTRACT EXCEPT !.clampPolicy.bloom.max = 900,
     !.prohibitedBehaviors = <<"drift-recursion", "sealed-integrations", "nightmare-loops">>]

UntaggedContract ==
  [DEFAULT_CONTRACT EXCEPT !.prohibitedBehaviors = <<"collapse-triggers", "seal-imports">>]

topKPolicy ==
  [ mode |-> "topk", k |-> 2, threshold |-> Undefined, blockSize |-> Undefined,
    maxActiveFraction |-> 500, minActiveFraction |-> Undefined, seed |-> Undefined ]

baselineSnapshot16 ==
  [ tick |-> 16, sceneTags |-> <<"veil", "echo">>,
    targets |-> [ drift   |-> [density |-> 200, activeIndices |-> <<0, 3>>],
                  emotion |-> [density |-> 500, activeIndices |-> <<0, 2, 4>>],
                  glyph   |-> [density |-> 250, activeIndices |-> <<0, 1>>] ] ]

\* a baseline whose index lists repeat entries and hold a negative one
baselineSnapshotRaw ==
  [ tick |-> 7, sceneTags |-> <<"veil">>,
    targets |-> [ drift   |-> [density |-> 200, activeIndices |-> <<0, 0, -2>>],
                  emotion |-> [density |-> 500, activeIndices |-> <<2, 2, 5>>],
                  glyph   |-> [density |-> 250, activeIndices |-> <<1, 0, 1>>] ] ]

Options(contract, plugins, sparsityPolicy, baselineSparsity) ==
  [ contract |-> contract, plugins |-> plugins,
    sparsityPolicy |-> sparsityPolicy, baselineSparsity |-> baselineSparsity ]

InspectPlugins ==
  << Plugin("loud-delta", Absent, Absent, Hook("const", ERet(900, Undefined, ""))),
     Plugin("sparse-inspector", Absent, Absent, Hook("inspect", ERet(-500, 80, "seen"))),
     Plugin("soft-delta", Absent, Absent, Hook("const", ERet(200, Undefined, ""))) >>

ConfigNames ==
  { "default", "untagged", "public", "sandbox", "limited", "inspect",
    "inspectBaseline", "fuzzBloom", "fuzzEmotion", "nest", "nestBaseline", "clamped" }

\* the options with which the model builds a second runtime
TwoRuntimeConfigs ==
  {"default", "limited", "inspect", "inspectBaseline", "nest", "nestBaseline", "clamped"}

\* the options createReasoncoreLite is called with
Config(name) ==
  CASE name = "default"  -> Options(DEFAULT_CONTRACT, <<>>, None, None)
    [] name = "untagged" -> Options(UntaggedContract, <<>>, None, None)
    [] name = "public"   -> Options(PUBLIC_CONTRACT, <<>>, None, None)
    [] name = "sandbox"  ->
         Options(DEFAULT_CONTRACT,
           << Plugin("sandbox-check",
                     Hook("mutateCatch", GRet(<<" spectral ">>)),
                     Absent,
                     Hook("mutateCatch", ERet(900, 900, "surge"))) >>,
           None, None)
    [] name = "limited"  ->
         Options(limitedContract,
           << Plugin("hostile-vector", Absent, Absent,
                     Hook("mutateStrict", ERet(350, 300, "hostile"))),
              Plugin("alpha", Absent, Absent, Hook("const", ERet(750, 150, "alpha"))),
              Plugin("beta", Absent, Absent, Hook("const", ERet(450, 50, "beta"))),
              Plugin("gamma", Absent, Absent, Hook("const", ERet(-550, -120, "gamma"))),
              Plugin("glyph-flood",
                     Hook("const", GRet(<<"solitude", "signal", "specter", "vector", "shard">>)),
                     Absent, Absent) >>,
           Some(topKPolicy), None)
    [] name = "inspect"  ->
         Options([DEFAULT_CONTRACT EXCEPT !.maxActiveChannelsEmotion = 1],
                 InspectPlugins, None, None)
    [] name = "inspectBaseline" ->
         Options([DEFAULT_CONTRACT EXCEPT !.maxActiveChannelsEmotion = 1,
                                          !.maxActiveChannelsDrift = 0],
                 InspectPlugins, None, Some(baselineSnapshot16))
    [] name = "fuzzBloom" ->
         Options([DEFAULT_CONTRACT EXCEPT !.maxActiveChannelsDrift = 1,
                                          !.maxActiveChannelsEmotion = 1],
           << Plugin("fuzzer", Absent, Hook("fuzz", BRet(0, 0, 0)), Hook("void", ERet(0, 0, ""))),
              Plugin("thrower", Hook("throw", GRet(<<>>)), Hook("throw", BRet(0, 0, 0)),
                     Hook("throw", ERet(0, 0, ""))),
              Plugin("steady", Hook("void", GRet(<<>>)),
                     Hook("const", BRet(MaxFinite, 100, Undefined)),
                     Hook("const", ERet(200, 50, "steady"))) >>,
           None, None)
    [] name = "fuzzEmotion" ->
         Options([DEFAULT_CONTRACT EXCEPT !.maxActiveChannelsDrift = 1,
                                          !.maxActiveChannelsEmotion = 1],
           << Plugin("thrower", Hook("throw", GRet(<<>>)), Hook("throw", BRet(0, 0, 0)),
                     Hook("throw", ERet(0, 0, ""))),
              Plugin("fuzzer", Hook("fuzz", GRet(<<>>)), Absent, Hook("fuzz", ERet(0, 0, ""))),
              Plugin("steady", Absent, Hook("const", BRet(50, 200, Undefined)),
                     Hook("const", ERet(-550, -120, "steady"))) >>,
           None, None)
    [] name = "nest"     ->
         Options([DEFAULT_CONTRACT EXCEPT !.maxActiveChannelsDrift = Undefined,
                                          !.maxActiveChannelsEmotion = Undefined],
           << Plugin("nester", Absent, Absent, Hook("nest", ERet(200, 50, "nested"))) >>,
           None, None)
    [] name = "nestBaseline" ->
         Options([DEFAULT_CONTRACT EXCEPT !.maxActiveChannelsDrift = Undefined,
                                          !.maxActiveChannelsEmotion = Undefined],
           << Plugin("nester", Absent, Absent, Hook("nest", ERet(200, 50, "nested"))) >>,
           None, Some(baselineSnapshot16))
    [] name = "clamped"  ->
         Options([DEFAULT_CONTRACT EXCEPT !.maxActiveGlyphs = Undefined],
           << Plugin("echoer", Hook("const", GRet(<<"spectral">>)),
                     Hook("const", BRet(50, Undefined, Undefined)),
                     Hook("const", ERet(300, 40, "echo"))) >>,
           None, Some(baselineSnapshotRaw))

\* the inputs the model feeds a runtime built with these options
InputsOf(name) ==
  IF name = "clamped"
  THEN {NoisyInput, NonFiniteInput} \cup
       {ClampedInput(x, Config(name).contract) : x \in {NoisyInput, NonFiniteInput}}
  ELSE Inputs

(***************************************************************************)
(* Plugin host (src/plugins/api.ts)                                        *)
(***************************************************************************)
\* a variant that accepts any contract
validateContractLax(contract) == TRUE

\* validateContract: TRUE when it returns the contract, FALSE when it throws
validateContract(contract) ==
  \E i \in 1..Len(contract.prohibitedBehaviors) :
     contract.prohibitedBehaviors[i] = "drift-recursion"

toDiagnostic(plugin, hook, type, detail) ==
  [plugin |-> plugin, hook |-> hook, type |-> type, detail |-> detail]

\* a variant that always reads the latest snapshot
resolveSnapshotLatest(active, latest, depth) == latest

resolveSnapshot(active, latest, depth) == IF depth > 0 THEN active ELSE latest

getSparsityTelemetry(snapshot) == snapshot.telemetry

getActiveIndices(target, snapshot) ==
  IF target \notin DOMAIN snapshot.vectors THEN <<>>
  ELSE deriveVectorActiveIndices(snapshot.vectors[target])

\* a variant that activates the latest snapshot whatever it is handed
withSparsitySnapshotEnterLatest(snapshot, active, latest, depth) ==
  [ previous      |-> active,
    previousDepth |-> depth,
    active        |-> latest,
    depth         |-> depth + 1 ]

\* a variant that leaves the depth counter alone
withSparsitySnapshotEnterFlat(snapshot, active, latest, depth) ==
  [ previous      |-> active,
    previousDepth |-> depth,
    active        |-> IF snapshot # None THEN snapshot[1] ELSE latest,
    depth         |-> depth ]

\* the entry half of withSparsitySnapshot (lines 126-129)
withSparsitySnapshotEnter(snapshot, active, latest, depth) ==
  [ previous      |-> active,
    previousDepth |-> depth,
    active        |-> IF snapshot # None THEN snapshot[1] ELSE latest,
    depth         |-> depth + 1 ]

\* a variant that also replaces the snapshot of a scope that is open
setLatestSparsitySnapshotAlways(snapshot, active, depth) ==
  [latest |-> snapshot, active |-> snapshot]

setLatestSparsitySnapshot(snapshot, active, depth) ==
  [latest |-> snapshot, active |-> IF depth = 0 THEN snapshot ELSE active]

\* a variant that hands the hook the caller's own arrays, unfrozen
GlyphHookContextShared(context) ==
  [fields |-> context, frozen |-> FALSE, sharesInput |-> TRUE]

\* freezeDeep({...context, glyphs: [...], context: [...]}) (line 205): the
\* arrays are copies, and the copy is frozen
GlyphHookContext(context) ==
  [fields |-> context, frozen |-> TRUE, sharesInput |-> FALSE]

\* freezeDeep({...context}) for the flat emotion and bloom contexts
FlatHookContext(context) ==
  [fields |-> context, frozen |-> TRUE, sharesInput |-> FALSE]

\* a variant without the try/catch: the exception leaves evaluate
HostCatchesNone(pass) == FALSE

\* the try/catch around every hook call (lines 216/231, 259/277, 306/325)
HostCatches(pass) == TRUE

\* what calling one hook does: it returns a result, returns nothing, or
\* throws.  A hook that never returns is cut off by the sandbox timeout, which
\* surfaces as a throw.  `choice` is the result a "fuzz" hook picks.
HookOutcome(hook, ctx, snapshot, choice) ==
  LET returned(r) == [type |-> "returned", ret |-> r, message |-> ""]
      void        == [type |-> "void", ret |-> hook.ret, message |-> ""]
      threw(m)    == [type |-> "threw", ret |-> hook.ret, message |-> m]
  IN  CASE hook.kind = "void"        -> void
        [] hook.kind = "const"       -> returned(hook.ret)
        [] hook.kind = "nest"        -> returned(hook.ret)
        [] hook.kind = "fuzz"        -> returned(choice)
        [] hook.kind = "throw"       -> threw("plugin failure")
        [] hook.kind = "mutateCatch" -> returned(hook.ret)
        [] hook.kind = "mutateStrict" ->
             IF ctx.frozen THEN threw("Cannot assign to read only property")
             ELSE returned(hook.ret)
        [] hook.kind = "inspect"     ->
             IF getActiveIndices("emotion", snapshot) # <<>> THEN returned(hook.ret)
             ELSE void

\* whether the hook tries to write into its context
HookMutates(hook) == hook.kind \in {"mutateCatch", "mutateStrict"}

\* the push loop of runGlyphHooks (lines 224-229)
RECURSIVE PushUpTo(_, _, _)
PushUpTo(suggestions, additional, limit) ==
  IF additional = <<>> \/ Len(suggestions) >= limit THEN suggestions
  ELSE PushUpTo(Append(suggestions, Head(additional)), Tail(additional), limit)

CollectGlyph(suggestions, result, limit) ==
  PushUpTo(suggestions, sanitizeStrings(result.add), limit)

\* lines 265-275
CollectEmotion(value, result, driftSpikeThreshold) ==
  [ deltaAdjustments |->
      IF IsFinite(result.delta)
      THEN Append(value.deltaAdjustments, MathMax(-Scale, MathMin(Scale, result.delta)))
      ELSE value.deltaAdjustments,
    biases |->
      IF IsFinite(result.bias)
      THEN Append(value.biases,
                  MathMax(-driftSpikeThreshold, MathMin(driftSpikeThreshold, result.bias)))
      ELSE value.biases,
    labels |-> IF result.label # "" THEN Append(value.labels, result.label)
               ELSE value.labels ]

\* lines 312-320
CollectBloom(value, result) ==
  [ adjustments |-> IF IsFinite(result.delta) THEN Append(value.adjustments, result.delta)
                    ELSE value.adjustments,
    floors      |-> IF IsFinite(result.floor) THEN Append(value.floors, result.floor)
                    ELSE value.floors,
    ceilings    |-> IF IsFinite(result.ceiling) THEN Append(value.ceilings, result.ceiling)
                    ELSE value.ceilings ]

EmptyGlyphValue == <<>>
EmptyBloomValue == [adjustments |-> <<>>, floors |-> <<>>, ceilings |-> <<>>]
EmptyEmotionValue == [deltaAdjustments |-> <<>>, biases |-> <<>>, labels |-> <<>>]

(***************************************************************************)
(* The runtime (createReasoncoreLite), its pure parts                      *)
(***************************************************************************)
\* toGlyphContext: `context` is the caller's own array
toGlyphContext(glyphs, glyphInput) ==
  [glyphs |-> glyphs, context |-> glyphInput.context, limit |-> MathRound(glyphInput.limit)]

toEmotionContext(emotion, delta) == [baseline |-> emotion.baseline, delta |-> delta]

toBloomContext(probability, bloom) ==
  [ probability |-> probability, seeds |-> bloom.seeds,
    density |-> bloom.density, variance |-> bloom.variance ]

\* applyReasoncoreSparsityResult; weights and sparsityPolicy are optional
applyReasoncoreSparsityResult(values, weights, sparsityPolicy) ==
  IF Len(values) = 0 THEN [mask |-> <<>>, values |-> <<>>]
  ELSE IF sparsityPolicy = None
    THEN [mask |-> [i \in 1..Len(values) |-> TRUE], values |-> values]
  ELSE LET weightedValues ==
             IF weights # None
             THEN [i \in 1..Len(values) |->
                     NumMulExt(values[i],
                               IF i <= Len(weights[1]) THEN weights[1][i] ELSE Scale)]
             ELSE values
           result == sparsifyWithPolicyResult(weightedValues, sparsityPolicy[1])
       IN  IF weights = None THEN result
           ELSE [ mask   |-> result.mask,
                  values |-> [i \in 1..Len(values) |->
                                IF result.mask[i] THEN values[i] ELSE 0] ]

RECURSIVE FilterByMask(_, _, _)
FilterByMask(values, mask, i) ==
  IF i > Len(values) THEN <<>>
  ELSE IF mask[i] THEN <<values[i]>> \o FilterByMask(values, mask, i + 1)
  ELSE FilterByMask(values, mask, i + 1)

\* applyReasoncoreSparsity(values, deriveBloomWeights(values.length, bloomContext))
SparseBloomValues(values, bloomContext, sparsityPolicy) ==
  applyReasoncoreSparsityResult(values, Some(deriveBloomWeights(Len(values), bloomContext)),
                                sparsityPolicy).values

\* lines 933-939: the plugin ceilings whose mask entry is set
SparseBloomCeilings(ceilings, bloomContext, sparsityPolicy) ==
  FilterByMask(ceilings,
               applyReasoncoreSparsityResult(ceilings,
                 Some(deriveBloomWeights(Len(ceilings), bloomContext)), sparsityPolicy).mask,
               1)

\* lines 948-962: the final clamp and its rationale tag
BloomReclamped(bloom, clampRange) ==
  LET finalBloomProbability == clamp(bloom.probability, clampRange)
      clampChanged == ~IsFinite(bloom.probability)
                      \/ finalBloomProbability # bloom.probability
      clampBoundaryHit == finalBloomProbability = clampRange.min
                          \/ finalBloomProbability = clampRange.max
  IN  IF clampChanged \/ clampBoundaryHit
      THEN [bloom EXCEPT !.probability = finalBloomProbability,
                         !.rationale = IF "clamp-enforced" \in SeqToSet(bloom.rationale)
                                       THEN bloom.rationale
                                       ELSE Append(bloom.rationale, "clamp-enforced")]
      ELSE bloom

\* lines 925-962: the bloom result after the bloom hooks have run
BloomFinal(input, contract, sparsityPolicy, drift, bloomContext, bloomValue) ==
  BloomReclamped(
    computeBloomProbability(input.bloom, contract, drift,
      SparseBloomValues(bloomValue.adjustments, bloomContext, sparsityPolicy),
      SparseBloomValues(bloomValue.floors, bloomContext, sparsityPolicy),
      SparseBloomCeilings(bloomValue.ceilings, bloomContext, sparsityPolicy)),
    contract.clampPolicy.bloom)

\* a variant in which the emotion cooldowns of the previous tick bias the
\* first drift pass
driftBiasFromEmotion(rt) ==
  IF \E k \in 1..Len(rt.emotionCooldowns) : rt.emotionCooldowns[k] # 0 THEN 100 ELSE 0

\* a variant in which the previous tick leaves a bias behind
driftBiasCarried(rt) == IF rt.sparseSnapshot = None THEN 0 ELSE 100

\* no drift bias is carried from one evaluate to the next (line 913)
driftBias(rt) == 0

\* the blended weights of one signal (lines 966-971, lines 990-1001)
ChannelWeights(n, f) ==
  blendChannelWeights(n, << deriveEmotionWeights(n, f.emotionContext),
                            deriveBloomWeights(n, f.bloomContext) >>)

\* what the runtime keeps of one gated signal
GateResult(weights, ensured, cooled, limited, driftValue) ==
  [ weights   |-> weights,
    snapshot  |-> cooled.snapshot,
    limited   |-> limited,
    cooldowns |-> updateCooldownTimers(ensured, limited.activeIndices, driftValue),
    \* the locals the steps worked on, kept as history
    ensured    |-> ensured,
    cooled     |-> cooled.values,
    driftValue |-> driftValue ]

\* limitActiveChannels on the cooled values (lines 985, 1021-1024)
Budgeted(weights, ensured, cooled, maxActive, driftValue) ==
  GateResult(weights, ensured, cooled, limitActiveChannels(cooled.values, maxActive),
             driftValue)

\* applyCooldownToValues (lines 983, 1016-1019)
Cooled(weights, bloomAware, ensured, maxActive, driftValue) ==
  Budgeted(weights, ensured, applyCooldownToValues(bloomAware, ensured), maxActive,
           driftValue)

\* ensureCooldownVector (lines 982, 1012-1015)
Ensured(weights, bloomAware, cooldowns, maxActive, driftValue) ==
  Cooled(weights, bloomAware, ensureCooldownVector(cooldowns, Len(bloomAware)),
         maxActive, driftValue)

\* sparsity and bloom gate (lines 972-981, 1002-1011)
Weighted(values, weights, cooldowns, maxActive, f) ==
  Ensured(weights,
          applyBloomUpdateGate(
            applyReasoncoreSparsityResult(values, Some(weights), f.sparsityPolicy).values,
            f.bloomFinal.probability, f.input.bloom, f.contract),
          cooldowns, maxActive, f.drift.value)

\* one signal's weights, sparsity, bloom gate, cooldown and budget
\* (lines 966-986 for drift biases, lines 990-1029 for emotion deltas)
GateChannels(values, cooldowns, maxActive, f) ==
  Weighted(values, ChannelWeights(Len(values), f), cooldowns, maxActive, f)

\* a variant that describes the surviving values instead of the published vector
ChannelTelemetrySurvivors(target, contract, maxActive, gate, baselineSnapshot) ==
  computeSparsityTelemetry(gate.limited.values, contract.sparsityPolicyName, target,
    toTelemetryExtras(maxActive, Len(gate.limited.activeIndices), gate.weights,
                      gate.snapshot, toBaselineTelemetryDetails(target, baselineSnapshot),
                      gate.limited.activeIndices))

\* the telemetry of one gated signal (lines 1073-1100)
ChannelTelemetry(target, contract, maxActive, gate, baselineSnapshot) ==
  computeSparsityTelemetry(gate.limited.vector, contract.sparsityPolicyName, target,
    toTelemetryExtras(maxActive, Len(gate.limited.activeIndices), gate.weights,
                      gate.snapshot, toBaselineTelemetryDetails(target, baselineSnapshot),
                      gate.limited.activeIndices))

\* the glyph telemetry (lines 1101-1110)
GlyphTelemetry(contract, gatedGlyphVector, finalGlyphSuggestions, baselineSnapshot) ==
  computeSparsityTelemetry(gatedGlyphVector, "reasoncore-lite-glyph-limit", "glyph",
    toTelemetryExtras(contract.maxActiveGlyphs, Len(finalGlyphSuggestions), <<>>, <<>>,
                      toBaselineTelemetryDetails("glyph", baselineSnapshot),
                      deriveVectorActiveIndices(gatedGlyphVector)))

\* a variant that never cuts the suggestions to maxActiveGlyphs
FinalGlyphSuggestionsUncut(glyphInput, contract, pluginGlyphs) ==
  suggestGlyphs(glyphInput, contract, pluginGlyphs)

\* lines 1038-1041
FinalGlyphSuggestions(glyphInput, contract, pluginGlyphs) ==
  IF contract.maxActiveGlyphs = Undefined
  THEN suggestGlyphs(glyphInput, contract, pluginGlyphs)
  ELSE SliceTo(suggestGlyphs(glyphInput, contract, pluginGlyphs), contract.maxActiveGlyphs)

\* lines 1050-1053
GatedGlyphVector(glyphValue, pluginGlyphs, sparsityPolicy) ==
  applyReasoncoreSparsityResult(
    [i \in 1..Len(glyphValue) |-> IF i - 1 < Len(pluginGlyphs) THEN Scale ELSE 0],
    None, sparsityPolicy).values

\* lines 1042-1130: the snapshot to publish, the result and the new cooldowns
TailResult(contract, f, driftGate, emotionGate, finalGlyphSuggestions, gatedGlyphVector, diagnostics) ==
  [ output |->
      [ drift   |-> computeDrift(f.input.drift, contract, average(driftGate.limited.values)),
        bloom   |-> f.bloomFinal,
        glyphs  |-> [suggestions |-> finalGlyphSuggestions, diagnostics |-> diagnostics],
        emotion |-> resolveEmotionDelta(f.input.emotion, contract,
                                        emotionGate.limited.values, f.emotionValue.labels),
        diagnostics |-> [contractVersion |-> contract.version, plugin |-> diagnostics] ],
    nextSnapshot |->
      [ vectors |-> [ drift   |-> driftGate.limited.vector,
                      emotion |-> emotionGate.limited.vector,
                      glyph   |-> gatedGlyphVector ],
        telemetry |->
          [ drift   |-> ChannelTelemetry("drift", contract, contract.maxActiveChannelsDrift,
                                         driftGate, f.baselineSnapshot),
            emotion |-> ChannelTelemetry("emotion", contract,
                                         contract.maxActiveChannelsEmotion,
                                         emotionGate, f.baselineSnapshot),
            glyph   |-> GlyphTelemetry(contract, gatedGlyphVector, finalGlyphSuggestions,
                                       f.baselineSnapshot) ],
        baseline |-> f.baselineSnapshot,
        origin   |-> Some(<<f.rt, f.callNo>>) ],
    driftCooldowns   |-> driftGate.cooldowns,
    emotionCooldowns |-> emotionGate.cooldowns,
    gates            |-> [drift |-> driftGate, emotion |-> emotionGate] ]

GateEnv(rt, sparsityPolicy, f) ==
  [ emotionContext |-> f.emotionContext, bloomContext |-> f.bloomContext,
    sparsityPolicy |-> sparsityPolicy, bloomFinal |-> f.bloomFinal,
    input |-> f.input, contract |-> rt.contract, drift |-> f.drift ]

\* lines 966-1130 of evaluate: everything after the emotion hooks.  `rt` is
\* the runtime's closure state when the hooks have returned, `f` the locals
\* of the call.
EvaluateTail(rt, sparsityPolicy, f) ==
  TailResult(rt.contract, f,
    GateChannels(f.emotionValue.biases, rt.driftCooldowns,
                 rt.contract.maxActiveChannelsDrift, GateEnv(rt, sparsityPolicy, f)),
    GateChannels(f.emotionValue.deltaAdjustments, rt.emotionCooldowns,
                 rt.contract.maxActiveChannelsEmotion, GateEnv(rt, sparsityPolicy, f)),
    FinalGlyphSuggestions(f.input.glyph, rt.contract,
                          limitGlyphSuggestions(f.glyphValue, rt.contract.maxActiveGlyphs)),
    GatedGlyphVector(f.glyphValue,
                     limitGlyphSuggestions(f.glyphValue, rt.contract.maxActiveGlyphs),
                     sparsityPolicy),
    f.diagnostics.glyph \o f.diagnostics.bloom \o f.diagnostics.emotion)

(***************************************************************************)
(* State                                                                   *)
(***************************************************************************)
\* bounds of the exploration
MaxTicks == 3
MaxDepth == 2

Runtimes == {"A", "B"}

VARIABLES
  runtimes,              \* per runtime: nothing, or its closure state
  activeSparseSnapshot,  \* api.ts line 90
  latestSparseSnapshot,  \* api.ts line 91
  activeSnapshotDepth,   \* api.ts line 92
  stack,                 \* the evaluate calls in progress, innermost last
  lastCreate,            \* the last createReasoncoreLite call and how it ended
  lastReturn,            \* the last evaluate call that ended and how
  ticks,                 \* evaluate calls started so far
  dIn, dIteration, dState, dResult,  \* one run of computeDrift, step by step
  sIn, sOut,             \* the calls of sparsifyWithPolicyResult on one input
  gIn, gTrace            \* one signal's cooldown and budget steps, tick after tick

vars == << runtimes, activeSparseSnapshot, latestSparseSnapshot, activeSnapshotDepth,
           stack, lastCreate, lastReturn, ticks, dIn, dIteration, dState, dResult,
           sIn, sOut, gIn, gTrace >>

engineVars == << runtimes, activeSparseSnapshot, latestSparseSnapshot,
                 activeSnapshotDepth, stack, lastCreate, lastReturn, ticks >>

driftVars == << dIn, dIteration, dState, dResult >>

sparsifyVars == << sIn, sOut >>

gateVars == << gIn, gTrace >>

Exists(r) == runtimes[r] # None
Rt(r) == runtimes[r][1]
Top == stack[Len(stack)]
PluginsOf(r) == Config(Rt(r).cfg).plugins

InitEngine ==
  /\ runtimes = [r \in Runtimes |-> None]
  /\ activeSparseSnapshot = EMPTY_SNAPSHOT
  /\ latestSparseSnapshot = EMPTY_SNAPSHOT
  /\ activeSnapshotDepth = 0
  /\ stack = <<>>
  /\ lastCreate = None
  /\ lastReturn = None
  /\ ticks = 0

InitDriftIdle ==
  /\ dIn = None
  /\ dIteration = 0
  /\ dState = None
  /\ dResult = None

InitSparsifyIdle ==
  /\ sIn = None
  /\ sOut = <<>>

InitGateIdle ==
  /\ gIn = None
  /\ gTrace = <<>>

Init == InitEngine /\ InitDriftIdle /\ InitSparsifyIdle /\ InitGateIdle

(***************************************************************************)
(* createReasoncoreLite                                                    *)
(***************************************************************************)
\* the second runtime is built from the same options as the first
CreatableAs(r) ==
  IF r = "A" THEN ConfigNames
  ELSE IF Exists("A") THEN {Rt("A").cfg} \cap TwoRuntimeConfigs ELSE {}

NewRuntime(name, contract) ==
  [ cfg |-> name, contract |-> contract, sparseSnapshot |-> None,
    driftCooldowns |-> <<>>, emotionCooldowns |-> <<>>, calls |-> 0, history |-> <<>> ]

CreateRuntime(r, name) ==
  /\ stack = <<>>
  /\ ~Exists(r)
  /\ name \in CreatableAs(r)
  /\ LET contract == Config(name).contract
     IN  IF validateContract(contract)
         THEN /\ runtimes' = [runtimes EXCEPT ![r] = Some(NewRuntime(name, contract))]
              /\ lastCreate' = Some([rt |-> r, cfg |-> name, threw |-> FALSE])
         ELSE /\ runtimes' = runtimes
              /\ lastCreate' = Some([rt |-> r, cfg |-> name, threw |-> TRUE])
  /\ UNCHANGED << activeSparseSnapshot, latestSparseSnapshot, activeSnapshotDepth,
                  stack, lastReturn, ticks >>
  /\ UNCHANGED driftVars
  /\ UNCHANGED sparsifyVars
  /\ UNCHANGED gateVars

(***************************************************************************)
(* evaluate, one hook call at a time                                       *)
(***************************************************************************)
EmptyDiagnostics == [glyph |-> <<>>, bloom |-> <<>>, emotion |-> <<>>]

\* a variant that always falls back to the process-wide latest snapshot
HookSnapshotLatest(rt, baselineSnapshot) == None

\* lines 916-917: the snapshot the hooks of this call will read
HookSnapshot(rt, baselineSnapshot) ==
  mergeSnapshotWithBaseline(rt.sparseSnapshot, baselineSnapshot)

\* lines 913-920 up to the first glyph hook
NewFrame(r, input, scope) ==
  LET rt == Rt(r)
      baselineSnapshot == Config(rt.cfg).baselineSparsity
      glyphContext == toGlyphContext(<<>>, input.glyph)
  IN  [ rt |-> r, callNo |-> rt.calls + 1, nested |-> stack # <<>>,
        tick |-> ticks + 1,
        input |-> input, inputAtCall |-> input,
        drift |-> computeDrift(input.drift, rt.contract, driftBias(rt)),
        baselineSnapshot |-> baselineSnapshot,
        hookSnapshot |-> HookSnapshot(rt, baselineSnapshot),
        publishedAtStart |-> rt.sparseSnapshot,
        pass |-> "glyph", idx |-> 1, awaiting |-> FALSE,
        previous |-> scope.previous, previousDepth |-> scope.previousDepth,
        ctx |-> GlyphHookContext(glyphContext), limit |-> glyphContext.limit,
        suggestions |-> <<>>, glyphValue |-> EmptyGlyphValue,
        bloomValue |-> EmptyBloomValue, emotionValue |-> EmptyEmotionValue,
        diagnostics |-> EmptyDiagnostics,
        bloomContext |-> None, bloomFinal |-> None, emotionContext |-> None,
        hookLog |-> <<>> ]

Begin(r, input) ==
  LET rt == Rt(r)
      hookSnapshot == HookSnapshot(rt, Config(rt.cfg).baselineSparsity)
      scope == withSparsitySnapshotEnter(hookSnapshot, activeSparseSnapshot,
                                         latestSparseSnapshot, activeSnapshotDepth)
  IN  /\ ticks < MaxTicks
      /\ ticks' = ticks + 1
      /\ runtimes' = [runtimes EXCEPT ![r] = Some([rt EXCEPT !.calls = rt.calls + 1])]
      /\ stack' = (IF stack = <<>> THEN <<>>
                   ELSE [stack EXCEPT ![Len(stack)].awaiting = TRUE])
                  \o << NewFrame(r, input, scope) >>
      /\ activeSparseSnapshot' = scope.active
      /\ activeSnapshotDepth' = scope.depth
      /\ UNCHANGED << latestSparseSnapshot, lastCreate, lastReturn >>
      /\ UNCHANGED driftVars
      /\ UNCHANGED sparsifyVars
      /\ UNCHANGED gateVars

\* runtime.evaluate(input) called by the application
EvaluateTop(r, input) ==
  /\ stack = <<>>
  /\ Exists(r)
  /\ input \in InputsOf(Rt(r).cfg)
  /\ Begin(r, input)

\* runtime.evaluate(...) called by a plugin hook while it runs
EvaluateNested(r) ==
  /\ stack # <<>>
  /\ Len(stack) < MaxDepth
  /\ Exists(r)
  /\ Top.idx <= Len(PluginsOf(Top.rt))
  /\ PluginsOf(Top.rt)[Top.idx][Top.pass].kind = "nest"
  /\ ~Top.awaiting
  /\ Begin(r, BaseInput)

\* the host's bookkeeping after one hook call of the current pass
Advance(f, name, out) ==
  LET spike == Rt(f.rt).contract.clampPolicy.drift.spikeThreshold
      type  == IF out.type = "returned" THEN "applied"
               ELSE IF out.type = "threw" THEN "error" ELSE "skipped"
      diag  == toDiagnostic(name, f.pass, type, out.message)
      g == [f EXCEPT !.idx = f.idx + 1, !.awaiting = FALSE,
                     !.diagnostics[f.pass] = Append(@, diag)]
  IN  IF out.type # "returned" THEN g
      ELSE IF f.pass = "glyph"
        THEN [g EXCEPT !.suggestions = CollectGlyph(f.suggestions, out.ret, f.limit)]
      ELSE IF f.pass = "bloom"
        THEN [g EXCEPT !.bloomValue = CollectBloom(f.bloomValue, out.ret)]
      ELSE [g EXCEPT !.emotionValue = CollectEmotion(f.emotionValue, out.ret, spike)]

\* a hook writing into its context: ctx.context.push('intruder') in the glyph
\* pass.  A frozen context refuses the write; a context that shares the
\* caller's array passes the write on to the caller's input.
AfterWrite(f, hook) ==
  IF ~HookMutates(hook) \/ f.ctx.frozen \/ f.pass # "glyph" THEN f
  ELSE LET g == [f EXCEPT !.ctx.fields.context = Append(@, "intruder")]
       IN  IF f.ctx.sharesInput
           THEN [g EXCEPT !.input.glyph.context = Append(@, "intruder")]
           ELSE g

Thrown == [type |-> "threw", ret |-> <<>>, message |-> "nested evaluate failed"]

\* an exception leaving the innermost evaluate: its scope is released
\* (finally, lines 132-135) and the calling hook, if any, sees the exception
RECURSIVE Unwound(_, _)
Unwound(st, escaped) ==
  LET f    == st[Len(st)]
      rest == SubSeq(st, 1, Len(st) - 1)
  IN  IF rest = <<>>
      THEN [ stack |-> <<>>, active |-> f.previous, depth |-> f.previousDepth,
             escaped |-> TRUE ]
      ELSE LET parent == rest[Len(rest)]
               name   == PluginsOf(parent.rt)[parent.idx].name
           IN  IF HostCatches(parent.pass)
               THEN [ stack |-> [rest EXCEPT ![Len(rest)] = Advance(parent, name, Thrown)],
                      active |-> f.previous, depth |-> f.previousDepth,
                      escaped |-> FALSE ]
               ELSE Unwound(rest, TRUE)

HookRecord(name, f, out, snapshot) ==
  [ plugin |-> name, hook |-> f.pass, outcome |-> out.type, ret |-> out.ret,
    seen |-> [ vectors |-> snapshot.vectors,
               telemetry |-> getSparsityTelemetry(snapshot),
               origin |-> snapshot.origin ] ]

\* one iteration of the loop over the plugins in runGlyphHooks,
\* runBloomHooks or runEmotionHooks
HookCall ==
  /\ stack # <<>>
  /\ Top.idx <= Len(PluginsOf(Top.rt))
  /\ LET f     == Top
         entry == PluginsOf(f.rt)[f.idx]
         hook  == entry[f.pass]
         snapshot == resolveSnapshot(activeSparseSnapshot, latestSparseSnapshot,
                                     activeSnapshotDepth)
     IN  \E choice \in (IF hook.kind = "fuzz" THEN FuzzReturns(f.pass)
                        ELSE IF hook.kind = "absent" THEN {<<>>} ELSE {hook.ret}) :
           LET out == IF hook.kind = "absent"
                      THEN [type |-> "absent", ret |-> <<>>, message |-> ""]
                      ELSE HookOutcome(hook, f.ctx, snapshot, choice)
               g   == [AfterWrite(f, hook) EXCEPT
                         !.hookLog = Append(@, HookRecord(entry.name, f, out, snapshot))]
           IN  IF out.type = "threw" /\ ~HostCatches(f.pass)
               THEN LET u == Unwound([stack EXCEPT ![Len(stack)] = g], TRUE)
                    IN  /\ stack' = u.stack
                        /\ activeSparseSnapshot' = u.active
                        /\ activeSnapshotDepth' = u.depth
                        /\ lastReturn' = Some([ rt |-> g.rt, callNo |-> g.callNo,
                                                threw |-> TRUE,
                                                inputAtCall |-> g.inputAtCall,
                                                inputAfter |-> g.input,
                                                output |-> None ])
               ELSE /\ stack' = [stack EXCEPT ![Len(stack)] = Advance(g, entry.name, out)]
                    /\ UNCHANGED << activeSparseSnapshot, activeSnapshotDepth, lastReturn >>
  /\ UNCHANGED << runtimes, latestSparseSnapshot, lastCreate, ticks >>
  /\ UNCHANGED driftVars
  /\ UNCHANGED sparsifyVars
  /\ UNCHANGED gateVars

\* lines 922-923: the frame at the start of the bloom pass
BloomPassFrame(f, bloomContext) ==
  [f EXCEPT !.glyphValue = SliceTo(f.suggestions, f.limit),
            !.pass = "bloom", !.idx = 1,
            !.bloomContext = bloomContext,
            !.ctx = FlatHookContext(bloomContext)]

\* lines 925-964: the frame at the start of the emotion pass
EmotionPassFrame(f, bloomFinal) ==
  [f EXCEPT !.bloomFinal = bloomFinal,
            !.pass = "emotion", !.idx = 1,
            !.emotionContext = toEmotionContext(f.input.emotion,
                                                bloomFinal.probability - 500),
            !.ctx = FlatHookContext(toEmotionContext(f.input.emotion,
                                                     bloomFinal.probability - 500))]

\* the next run...Hooks call opens its scope on the same hookSnapshot
EnterPass(f, g, scope) ==
  /\ stack' = [stack EXCEPT ![Len(stack)] = g]
  /\ activeSparseSnapshot' = scope.active
  /\ activeSnapshotDepth' = scope.depth

\* runGlyphHooks or runBloomHooks returns (its scope is released) and
\* evaluate goes on to the next pass (lines 922-924, lines 925-965)
PassEnd ==
  /\ stack # <<>>
  /\ Top.idx = Len(PluginsOf(Top.rt)) + 1
  /\ Top.pass \in {"glyph", "bloom"}
  /\ EnterPass(Top,
       IF Top.pass = "glyph"
       THEN BloomPassFrame(Top,
              toBloomContext(
                computeBloomProbability(Top.input.bloom, Rt(Top.rt).contract, Top.drift,
                                        <<>>, <<>>, <<>>).probability,
                Top.input.bloom))
       ELSE EmotionPassFrame(Top,
              BloomFinal(Top.input, Rt(Top.rt).contract,
                         Config(Rt(Top.rt).cfg).sparsityPolicy,
                         Top.drift, Top.bloomContext, Top.bloomValue)),
       withSparsitySnapshotEnter(Top.hookSnapshot, Top.previous,
                                 latestSparseSnapshot, Top.previousDepth))
  /\ UNCHANGED << runtimes, latestSparseSnapshot, lastCreate, lastReturn, ticks >>
  /\ UNCHANGED driftVars
  /\ UNCHANGED sparsifyVars
  /\ UNCHANGED gateVars

\* what the runtime's history keeps of one finished call
CallRecord(f, rt, result) ==
  [ callNo |-> f.callNo, nested |-> f.nested, tick |-> f.tick,
    overlapped |-> f.nested \/ rt.calls # f.callNo,
    input |-> f.inputAtCall, inputAfter |-> f.input,
    output |-> result.output,
    driftCooldowns |-> result.driftCooldowns,
    emotionCooldowns |-> result.emotionCooldowns,
    hookLog |-> f.hookLog,
    collected |-> [ glyph |-> f.glyphValue, bloom |-> f.bloomValue,
                    emotion |-> f.emotionValue ],
    publishedAtStart |-> f.publishedAtStart,
    snapshot |-> result.nextSnapshot,
    gates |-> result.gates ]

\* lines 1115-1130: state update, publication, return
Publish(f, rt, result, published) ==
  /\ runtimes' = [runtimes EXCEPT ![f.rt] =
                    Some([rt EXCEPT !.sparseSnapshot = Some(result.nextSnapshot),
                                    !.driftCooldowns = result.driftCooldowns,
                                    !.emotionCooldowns = result.emotionCooldowns,
                                    !.history = Append(@, CallRecord(f, rt, result))])]
  /\ latestSparseSnapshot' = published.latest
  /\ activeSparseSnapshot' = published.active
  /\ activeSnapshotDepth' = f.previousDepth
  /\ stack' = SubSeq(stack, 1, Len(stack) - 1)
  /\ lastReturn' = Some([ rt |-> f.rt, callNo |-> f.callNo, threw |-> FALSE,
                          inputAtCall |-> f.inputAtCall, inputAfter |-> f.input,
                          output |-> Some(result.output) ])

Published(f, result) ==
  setLatestSparsitySnapshot(result.nextSnapshot, f.previous, f.previousDepth)

Returning(f, rt, result) == Publish(f, rt, result, Published(f, result))

\* runEmotionHooks returns and evaluate runs to its return statement
\* (lines 966-1130): state update, publication, result
EvaluateReturn ==
  /\ stack # <<>>
  /\ Top.idx = Len(PluginsOf(Top.rt)) + 1
  /\ Top.pass = "emotion"
  /\ Returning(Top, Rt(Top.rt),
               EvaluateTail(Rt(Top.rt), Config(Rt(Top.rt).cfg).sparsityPolicy, Top))
  /\ UNCHANGED << lastCreate, ticks >>
  /\ UNCHANGED driftVars
  /\ UNCHANGED sparsifyVars
  /\ UNCHANGED gateVars

Next ==
  \/ \E r \in Runtimes, name \in ConfigNames : CreateRuntime(r, name)
  \/ \E r \in Runtimes, input \in UNION {InputsOf(name) : name \in ConfigNames} :
       EvaluateTop(r, input)
  \/ \E r \in Runtimes : EvaluateNested(r)
  \/ HookCall
  \/ PassEnd
  \/ EvaluateReturn

Spec == Init /\ [][Next]_vars

(***************************************************************************)
(* computeDrift, one loop iteration at a time                              *)
(***************************************************************************)
DriftInputs ==
  [ intensity : {350, 9000, NaN, -1000},
    momentum  : {1200, 400, 18000, PosInf, -8000},
    anchor    : {250, -5000, 0},
    bias      : {50, 2000, NaN} ]

PluginBiases == {0, 80, -80, PosInf}

InitDrift ==
  /\ InitEngine
  /\ dIn \in { Some([input |-> i, pluginBias |-> b]) : i \in DriftInputs, b \in PluginBiases }
  /\ dIteration = 0
  /\ dState = Some(DriftLocals)
  /\ dResult = None
  /\ InitSparsifyIdle
  /\ InitGateIdle

\* one pass through the body of the for loop (lines 582-605)
DriftIterate ==
  /\ dIn # None
  /\ dResult = None
  /\ dIteration < MAX_ITERATIONS
  /\ \E driftClamp \in {DEFAULT_CONTRACT.clampPolicy.drift} :
     \E n \in {DriftNormalized(dIn[1].input, DEFAULT_CONTRACT, dIn[1].pluginBias)} :
     \E s2 \in {DriftStep(n, driftClamp, dState[1])} :
       /\ dState' = Some(s2)
       /\ IF Abs(s2.delta) <= driftClamp.spikeThreshold
             \/ dIteration = MAX_ITERATIONS - 1
          THEN /\ dResult' = Some(DriftResult(s2, dIteration))
               /\ dIteration' = dIteration
          ELSE /\ dResult' = None
               /\ dIteration' = dIteration + 1
  /\ UNCHANGED dIn
  /\ UNCHANGED engineVars
  /\ UNCHANGED sparsifyVars
  /\ UNCHANGED gateVars

NextDrift == DriftIterate

SpecDrift == InitDrift /\ [][NextDrift]_vars

\* the loop body is never blocked, so it keeps being scheduled
SpecDriftFair == SpecDrift /\ WF_vars(DriftIterate)

(***************************************************************************)
(* sparsifyWithPolicyResult, called repeatedly on one input                *)
(***************************************************************************)
\* how often the same values and policy are handed to the function
MaxRepeats == 2

\* vectors of up to four numbers, with equal magnitudes, zeros, opposite
\* signs and an infinite entry
SparseVectors ==
  { <<>>, <<300>>, <<500, 500>>, <<500, -500, 500>>, <<0, 0, 0>>,
    <<900, 100, -400>>, <<-200, 700, 700, 100>>, <<100, 200, 300, 400>>,
    <<600, 600, 600, 600>>, <<0, -800, 0, 800>>, <<PosInf, 50, NegInf>> }

SparsityPolicy(mode, k, threshold, blockSize, maxActiveFraction, minActiveFraction, seed) ==
  [ mode |-> mode, k |-> k, threshold |-> threshold, blockSize |-> blockSize,
    maxActiveFraction |-> maxActiveFraction, minActiveFraction |-> minActiveFraction,
    seed |-> seed ]

\* the optional fraction bounds, as fixed-point fractions
ActiveFractions == {Undefined, 0, 250, 340, 500, 750, 1000}

SparsityPolicies ==
  { SparsityPolicy("topk", k, Undefined, Undefined, f, g, seed) :
      k \in {Undefined, -1, 0, 1, 2, 3, 5}, f \in {Undefined, 500},
      g \in {Undefined, 500}, seed \in {Undefined, 7} }
  \cup { SparsityPolicy("topk", 2, 450, Undefined, f, g, Undefined) :
            f \in ActiveFractions, g \in ActiveFractions }
  \cup { SparsityPolicy("threshold", Undefined, t, Undefined, f, g, 7) :
            t \in {Undefined, 450}, f \in ActiveFractions, g \in ActiveFractions }
  \cup { SparsityPolicy("block", Undefined, 450, blockSize, f, g, Undefined) :
            blockSize \in {Undefined, 2}, f \in ActiveFractions, g \in ActiveFractions }

InitSparsify ==
  /\ InitEngine
  /\ InitDriftIdle
  /\ sIn \in { Some([values |-> v, policy |-> p]) : v \in SparseVectors, p \in SparsityPolicies }
  /\ sOut = <<>>
  /\ InitGateIdle

\* one call sparsifyWithPolicyResult(values, policy)
Sparsify ==
  /\ sIn # None
  /\ Len(sOut) < MaxRepeats
  /\ sOut' = Append(sOut, sparsifyWithPolicyResult(sIn[1].values, sIn[1].policy))
  /\ UNCHANGED sIn
  /\ UNCHANGED engineVars
  /\ UNCHANGED driftVars
  /\ UNCHANGED gateVars

NextSparsify == Sparsify

SpecSparsify == InitSparsify /\ [][NextSparsify]_vars

(***************************************************************************)
(* The cooldown and budget steps of one signal, tick after tick            *)
(***************************************************************************)
\* how many evaluates the signal is followed through
MaxGateTicks == 7

\* the contributions that reach the cooldown step at every tick
GateValues == { <<750>>, <<750, -550>>, <<5, 0, -1000>> }

\* maxActiveChannelsDrift / maxActiveChannelsEmotion
GateBudgets == {Undefined, 1}

\* drift.value of a tick
GateDrifts == {0, 370, -1000}

InitGate ==
  /\ InitEngine
  /\ InitDriftIdle
  /\ InitSparsifyIdle
  /\ gIn \in { Some([values |-> v, maxActive |-> m]) : v \in GateValues, m \in GateBudgets }
  /\ gTrace = <<>>

\* the cooldown vector the runtime holds between two evaluates
GateCooldowns == IF gTrace = <<>> THEN <<>> ELSE gTrace[Len(gTrace)].cooldowns

\* lines 982-986 (drift) and lines 1012-1029 (emotion) of one evaluate:
\* ensureCooldownVector, applyCooldownToValues, limitActiveChannels,
\* updateCooldownTimers
GateTick ==
  /\ gIn # None
  /\ Len(gTrace) < MaxGateTicks
  /\ \E driftValue \in GateDrifts :
     \E gate \in {Ensured(<<>>, gIn[1].values, GateCooldowns, gIn[1].maxActive, driftValue)} :
       gTrace' = Append(gTrace, gate)
  /\ UNCHANGED gIn
  /\ UNCHANGED engineVars
  /\ UNCHANGED driftVars
  /\ UNCHANGED sparsifyVars

NextGate == GateTick

SpecGate == InitGate /\ [][NextGate]_vars

(***************************************************************************)
(* Properties                                                              *)
(***************************************************************************)
Passes == {"glyph", "bloom", "emotion"}

History(r) == IF Exists(r) THEN Rt(r).history ELSE <<>>

CountNonZero(vector) == Cardinality({i \in 1..Len(vector) : vector[i] # 0})

InRange(x, range) == IsFinite(x) /\ range.min <= x /\ x <= range.max

\* the hook calls of one pass of a finished evaluate, in call order
LogOf(record, pass) == SelectSeq(record.hookLog, LAMBDA e : e.hook = pass)

DiagnosticsOf(record, name, pass) ==
  SelectSeq(record.output.diagnostics.plugin,
            LAMBDA d : d.plugin = name /\ d.hook = pass)

\* C1: after any sequence of evaluate calls, whatever the input (in range,
\* out of range, non-finite) and whatever the hooks returned, the returned
\* drift.value, bloom.probability and emotion.delta are finite and lie within
\* the contract's clampPolicy ranges.
C1_OutputsWithinClamps ==
  \A r \in Runtimes : \A i \in 1..Len(History(r)) :
    LET out  == History(r)[i].output
        clampPolicy == Rt(r).contract.clampPolicy
    IN  /\ InRange(out.drift.value, clampPolicy.drift)
        /\ InRange(out.bloom.probability, clampPolicy.bloom)
        /\ InRange(out.emotion.delta, clampPolicy.emotion)

\* an evaluate of a non-finite input, after one of an out-of-range input,
\* whose hooks returned an out-of-range delta and an infinite bias
C1_Witness ==
  \E r \in Runtimes : \E i \in 2..Len(History(r)) :
    /\ History(r)[i].input = NonFiniteInput
    /\ History(r)[i - 1].input = NoisyInput
    /\ \E k \in 1..Len(History(r)[i].hookLog) :
         /\ History(r)[i].hookLog[k].outcome = "returned"
         /\ History(r)[i].hookLog[k].ret = ERet(-2000, NegInf, "")

\* C2: in every published snapshot the drift vector has at most
\* contract.maxActiveChannelsDrift non-zero entries and the emotion vector at
\* most contract.maxActiveChannelsEmotion (when the budget is defined), with
\* or without a sparsity policy and whatever the cooldowns are.
C2_ActiveWithinBudget ==
  \A r \in Runtimes : \A i \in 1..Len(History(r)) :
    LET vectors  == History(r)[i].snapshot.vectors
        contract == Rt(r).contract
    IN  /\ contract.maxActiveChannelsDrift # Undefined
             => CountNonZero(vectors.drift) <= contract.maxActiveChannelsDrift
        /\ contract.maxActiveChannelsEmotion # Undefined
             => CountNonZero(vectors.emotion) <= contract.maxActiveChannelsEmotion

\* a later tick, with a cooldown running, where more emotion contributions
\* arrived than the budget allows and the budget is used up
C2_Witness ==
  \E r \in Runtimes : \E i \in 2..Len(History(r)) :
    LET telemetry == History(r)[i].snapshot.telemetry.emotion
    IN  /\ Rt(r).contract.maxActiveChannelsEmotion # Undefined
        /\ telemetry.vectorLength > Rt(r).contract.maxActiveChannelsEmotion
        /\ telemetry.activeCount = Rt(r).contract.maxActiveChannelsEmotion
        /\ \E c \in 1..Len(telemetry.channelCooldowns) : telemetry.channelCooldowns[c] > 0

\* C3: a hook that throws (a sandbox timeout included) is contained: evaluate
\* returns normally, the plugin gets exactly one diagnostic for that hook kind,
\* of type 'error' and carrying the message, and every other plugin's hook of
\* that kind is still called and its contribution collected, whether it is
\* registered before or after the failing plugin.
C3_ThrowingHookContained ==
  /\ lastReturn # None => ~lastReturn[1].threw
  /\ \A r \in Runtimes : \A i \in 1..Len(History(r)) : \A pass \in Passes :
       LET record == History(r)[i]
           log    == LogOf(record, pass)
           returned == SelectSeq(log, LAMBDA e : e.outcome = "returned")
       IN  /\ Len(log) = Len(PluginsOf(r))
           /\ \A k \in 1..Len(log) :
                LET diags == DiagnosticsOf(record, log[k].plugin, pass)
                IN  /\ log[k].plugin = PluginsOf(r)[k].name
                    /\ Len(diags) = 1
                    /\ log[k].outcome = "threw"
                         => diags[1].type = "error" /\ diags[1].detail # ""
                    /\ log[k].outcome = "returned" => diags[1].type = "applied"
           /\ pass = "emotion" =>
                LET labelled == SelectSeq(returned, LAMBDA e : e.ret.label # "")
                IN  record.collected.emotion.labels =
                      [k \in 1..Len(labelled) |-> labelled[k].ret.label]
           /\ pass = "bloom" =>
                LET floored == SelectSeq(returned, LAMBDA e : IsFinite(e.ret.floor))
                IN  record.collected.bloom.floors =
                      [k \in 1..Len(floored) |-> floored[k].ret.floor]

\* a finished evaluate in which a bloom hook threw between two bloom hooks
\* whose floors were both collected
C3_Witness ==
  \E r \in Runtimes : \E i \in 1..Len(History(r)) :
    LET log == LogOf(History(r)[i], "bloom")
    IN  \E k \in 2..(Len(log) - 1) :
          /\ log[k].outcome = "threw"
          /\ log[k - 1].outcome = "returned"
          /\ log[k + 1].outcome = "returned"
          /\ Len(History(r)[i].collected.bloom.floors) = 2


\* every evaluate in progress, innermost last
Frames == {stack[k] : k \in 1..Len(stack)}

\* C4: evaluate never alters the caller's input: the input after any hook has
\* run, and after evaluate has returned, equals the input as it was at the
\* call, in all three passes; hooks only ever receive frozen copies that share
\* nothing with the input, so a hook's attempt to write is lost or throws.
C4_InputNeverMutated ==
  /\ \A f \in Frames : /\ f.input = f.inputAtCall
                       /\ f.ctx.frozen /\ ~f.ctx.sharesInput
  /\ \A r \in Runtimes : \A i \in 1..Len(History(r)) :
       History(r)[i].inputAfter = History(r)[i].input
  /\ lastReturn # None => lastReturn[1].inputAfter = lastReturn[1].inputAtCall

\* a finished evaluate whose glyph hook and emotion hook both tried to write
\* into what they were given
C4_Witness ==
  \E r \in Runtimes : \E i \in 1..Len(History(r)) :
    /\ \E k \in 1..Len(PluginsOf(r)) :
         /\ HookMutates(PluginsOf(r)[k].glyph)
         /\ HookMutates(PluginsOf(r)[k].emotion)
    /\ \E e \in {History(r)[i].hookLog[k] : k \in 1..Len(History(r)[i].hookLog)} :
         e.hook = "emotion" /\ e.outcome = "returned"
    /\ History(r)[i].inputAfter = History(r)[i].input

\* C6: a runtime created with default options (no plugins, no sparsity
\* policy, no baseline) returns equal outputs for equal inputs, however many
\* evaluates lie between them: the state it carries does not reach the result.
C6_DefaultRepeatable ==
  \A r \in Runtimes :
    (Exists(r) /\ Rt(r).cfg \in {"default", "untagged", "public"}) =>
      \A i, j \in 1..Len(History(r)) :
        History(r)[i].input = History(r)[j].input
          => History(r)[i].output = History(r)[j].output

\* a default runtime that evaluated the same input three times in a row
C6_Witness ==
  \E r \in Runtimes :
    /\ Exists(r) /\ Rt(r).cfg = "default"
    /\ Len(History(r)) = 3
    /\ History(r)[1].input = NoisyInput
    /\ History(r)[2].input = NoisyInput
    /\ History(r)[3].input = NoisyInput
    /\ History(r)[3].output = History(r)[1].output

Tagged(contract) ==
  \E i \in 1..Len(contract.prohibitedBehaviors) :
    contract.prohibitedBehaviors[i] = "drift-recursion"

C8_BloomEnvelope ==
  \A r \in Runtimes : \A i \in 1..Len(History(r)) :
    LET bloom == History(r)[i].output.bloom
        range == Rt(r).contract.clampPolicy.bloom
    IN  /\ IsFinite(bloom.clamps.floor) /\ IsFinite(bloom.clamps.ceiling)
        /\ range.min <= bloom.clamps.floor
        /\ bloom.clamps.floor <= bloom.clamps.ceiling
        /\ bloom.clamps.ceiling <= range.max
        /\ bloom.clamps.floor <= bloom.probability
        /\ bloom.probability <= bloom.clamps.ceiling

\* one runtime saw a hook propose a ceiling above the contract range in one
\* evaluate and a floor above the ceiling in another
C8_Witness ==
  \E r \in Runtimes : \E i, j \in 1..Len(History(r)) :
    /\ \E k \in 1..Len(History(r)[i].hookLog) :
         /\ History(r)[i].hookLog[k].outcome = "returned"
         /\ History(r)[i].hookLog[k].ret = BRet(5000, 950, 1500)
    /\ History(r)[i].output.bloom.clamps.ceiling
         = Rt(r).contract.clampPolicy.bloom.max
    /\ \E k \in 1..Len(History(r)[j].hookLog) :
         /\ History(r)[j].hookLog[k].outcome = "returned"
         /\ History(r)[j].hookLog[k].ret = BRet(-200, 800, 300)
    /\ History(r)[j].output.bloom.clamps.floor = 300
    /\ History(r)[j].output.bloom.clamps.ceiling = 800


\* C9: computeDrift terminates without recursion for every input, finite or
\* not: the loop runs its body at least once and at most 8 times, reports that
\* count as `iterations`, and the value it returns lies within the contract's
\* drift clamp range.
C9_DriftTerminates ==
  /\ <>(dResult # None)
  /\ [](dIteration \in 0..7)
  /\ [](dResult # None =>
          /\ dResult[1].iterations \in 1..8
          /\ dResult[1].iterations = dIteration + 1
          /\ InRange(dResult[1].value, DEFAULT_CONTRACT.clampPolicy.drift)
          /\ dResult[1] = computeDrift(dIn[1].input, DEFAULT_CONTRACT, dIn[1].pluginBias))

\* a run that filtered a spike in every one of the 8 passes, on an input with
\* an infinite momentum
C9_Witness ==
  /\ dResult # None
  /\ dResult[1].spikesFiltered
  /\ dResult[1].iterations = 8
  /\ dIn[1].input.momentum = PosInf


\* two runtimes built from the same options
SameOptions == Exists("A") /\ Exists("B") /\ Rt("A").cfg = Rt("B").cfg

\* no hook of the plugins does anything but compute its return value
SideEffectFree(plugins) ==
  \A k \in 1..Len(plugins) : \A pass \in Passes : plugins[k][pass].kind # "nest"

\* some hook's return value depends on what the sparsity accessors return
ReadsSnapshot(plugins) ==
  \E k \in 1..Len(plugins) : \E pass \in Passes : plugins[k][pass].kind = "inspect"

\* the first i inputs of the two runtimes are the same
SameInputs(i) == \A j \in 1..i : History("A")[j].input = History("B")[j].input

SameResult(i) ==
  /\ History("A")[i].output = History("B")[i].output
  /\ History("A")[i].driftCooldowns = History("B")[i].driftCooldowns
  /\ History("A")[i].emotionCooldowns = History("B")[i].emotionCooldowns

Sequential(r, i) == \A j \in 1..i : History(r)[j].callNo = j

SeesOnly(hookLog, published) ==
  \A k \in 1..Len(hookLog) :
    /\ hookLog[k].seen.vectors = published.vectors
    /\ hookLog[k].seen.telemetry = getSparsityTelemetry(published)
    /\ hookLog[k].seen.origin = published.origin

\* C10 as stated: in the k-th evaluate of a runtime (k >= 2) every hook reads
\* what the runtime's (k-1)-th evaluate published.
C10_AsStated ==
  \A r \in Runtimes : \A i \in 1..Len(History(r)) :
    History(r)[i].callNo >= 2 =>
      \A k \in 1..Len(History(r)[i].hookLog) :
        History(r)[i].hookLog[k].seen.origin = Some(<<r, History(r)[i].callNo - 1>>)

\* C10, amended: in an evaluate of a runtime that has published before, every
\* hook of the glyph, bloom and emotion passes reads the vectors and telemetry
\* the runtime had last published when the evaluate began, never anything of
\* the evaluate in progress, whose own snapshot is published on return; that
\* last publication is the (k-1)-th evaluate's whenever the runtime's evaluates
\* ran one after the other (no hook re-entered evaluate on the runtime).
C10_HooksReadLastPublished ==
  /\ \A f \in Frames :
       f.publishedAtStart # None =>
         /\ SeesOnly(f.hookLog, f.publishedAtStart[1])
         /\ f.publishedAtStart[1].origin # Some(<<f.rt, f.callNo>>)
  /\ \A r \in Runtimes : \A i \in 1..Len(History(r)) :
       LET record == History(r)[i]
       IN  /\ record.snapshot.origin = Some(<<r, record.callNo>>)
           /\ record.publishedAtStart # None =>
                /\ SeesOnly(record.hookLog, record.publishedAtStart[1])
                /\ record.publishedAtStart[1].origin # Some(<<r, record.callNo>>)
           /\ (i >= 2 /\ Sequential(r, i)) =>
                /\ record.publishedAtStart = Some(History(r)[i - 1].snapshot)
                /\ History(r)[i - 1].snapshot.origin = Some(<<r, record.callNo - 1>>)

\* a second evaluate whose emotion hook read a non-empty emotion vector of the
\* first, after the other runtime had published in between
C10_Witness ==
  \E r \in Runtimes : \E o \in Runtimes \ {r} :
    /\ Len(History(r)) >= 2
    /\ Len(History(o)) >= 1
    /\ Sequential(r, 2)
    /\ History(r)[2].publishedAtStart # None
    /\ History(r)[2].publishedAtStart[1].vectors.emotion # <<>>
    /\ \E k \in 1..Len(History(r)[2].hookLog) :
         /\ History(r)[2].hookLog[k].hook = "emotion"
         /\ History(r)[2].hookLog[k].outcome = "returned"
         /\ ReadsSnapshot(PluginsOf(r))
         /\ History(r)[2].hookLog[k].seen.origin = Some(<<r, 1>>)
    /\ latestSparseSnapshot.origin = Some(<<r, 2>>)


\* what the claim says a numeric field stands for: the nearest bound of its
\* range when it is finite, the minimum of the range when it is not
Nearest(value, range) ==
  IF ~IsFinite(value) THEN range.min
  ELSE IF value < range.min THEN range.min
  ELSE IF value > range.max THEN range.max
  ELSE value

NearestInput(input, contract) ==
  [ drift   |-> [ intensity |-> Nearest(input.drift.intensity, contract.drift.intensity),
                  momentum  |-> Nearest(input.drift.momentum, contract.drift.momentum),
                  anchor    |-> Nearest(input.drift.anchor, contract.drift.anchor),
                  bias      |-> Nearest(input.drift.bias, contract.drift.bias) ],
    bloom   |-> [ seeds    |-> Nearest(input.bloom.seeds, contract.bloom.seeds),
                  density  |-> Nearest(input.bloom.density, contract.bloom.density),
                  variance |-> Nearest(input.bloom.variance, contract.bloom.variance) ],
    emotion |-> [ baseline |-> Nearest(input.emotion.baseline, contract.emotion.baseline),
                  target   |-> Nearest(input.emotion.target, contract.emotion.target) ],
    glyph   |-> [ contextuality |-> Nearest(input.glyph.contextuality, contract.glyph.contextuality),
                  limit         |-> Nearest(input.glyph.limit, contract.glyph.limit),
                  context       |-> input.glyph.context ] ]

\* the first i inputs of the two runtimes stand for the same in-range inputs
SameNearestInputs(i) ==
  \A j \in 1..i : NearestInput(History("A")[j].input, Rt("A").contract)
                    = NearestInput(History("B")[j].input, Rt("B").contract)

\* evaluate returned for every input it was called with
NeverRejected == lastReturn # None => ~lastReturn[1].threw

\* C11 as stated: evaluate never throws for an out-of-range or non-finite
\* field, and evaluates as if every finite out-of-range field were the nearest
\* bound of its contract range and every non-finite field the minimum of it:
\* two runtimes built alike whose inputs stand for the same in-range inputs
\* return the same results.
C11_AsStated ==
  /\ NeverRejected
  /\ (SameOptions /\ SideEffectFree(PluginsOf("A"))) =>
       \A i \in 1..Len(History("A")) :
         (i <= Len(History("B")) /\ SameNearestInputs(i)) => SameResult(i)


\* the class a suggested glyph belongs to: 1 a plugin suggestion, 2 a trimmed
\* caller context tag, 3 a built-in glyph, 4 none of these
GlyphRank(glyph, record) ==
  IF glyph \in SeqToSet(record.collected.glyph) THEN 1
  ELSE IF glyph \in {Trim(record.input.glyph.context[k]) : k \in 1..Len(record.input.glyph.context)}
  THEN 2
  ELSE IF glyph \in SeqToSet(BASE_GLYPHS) THEN 3
  ELSE 4

\* C12: glyphs.suggestions has no duplicates; its length is at most
\* round(clamp(input.glyph.limit, contract.glyph.limit)) and at most
\* contract.maxActiveGlyphs when that is defined; every element is a plugin
\* suggestion, a trimmed caller context tag, or a built-in glyph admitted
\* because the clamped contextuality is at least 0.2; plugin suggestions come
\* before context tags, which come before built-ins.
C12_GlyphSuggestionsBounded ==
  \A r \in Runtimes : \A i \in 1..Len(History(r)) :
    LET record      == History(r)[i]
        contract    == Rt(r).contract
        suggestions == record.output.glyphs.suggestions
    IN  /\ \A a, b \in 1..Len(suggestions) : suggestions[a] = suggestions[b] => a = b
        /\ Len(suggestions) <= MathRound(clamp(record.input.glyph.limit, contract.glyph.limit))
        /\ contract.maxActiveGlyphs # Undefined => Len(suggestions) <= contract.maxActiveGlyphs
        /\ \A a \in 1..Len(suggestions) :
             /\ suggestions[a] # ""
             /\ GlyphRank(suggestions[a], record) <= 3
             /\ GlyphRank(suggestions[a], record) = 3 =>
                  clamp(record.input.glyph.contextuality, contract.glyph.contextuality) >= 200
        /\ \A a, b \in 1..Len(suggestions) :
             a < b => GlyphRank(suggestions[a], record) <= GlyphRank(suggestions[b], record)

\* an evaluation asked for more glyphs than the contract allows, whose
\* suggestions fill the clamped limit with a plugin suggestion, context tags and
\* built-in glyphs
C12_Witness ==
  \E r \in Runtimes : \E i \in 1..Len(History(r)) :
    LET record      == History(r)[i]
        contract    == Rt(r).contract
        suggestions == record.output.glyphs.suggestions
        limit       == MathRound(clamp(record.input.glyph.limit, contract.glyph.limit))
    IN  /\ Len(suggestions) = limit
        /\ record.input.glyph.limit > contract.glyph.limit.max
        /\ \E a, b, c \in 1..Len(suggestions) :
             /\ GlyphRank(suggestions[a], record) = 1
             /\ GlyphRank(suggestions[b], record) = 2
             /\ GlyphRank(suggestions[c], record) = 3


Targets == {"drift", "emotion", "glyph"}

\* the number of plugins whose hook contributed a value for a signal in the
\* evaluate of a record: a finite bias (drift), a finite delta (emotion), at
\* least one suggestion (glyph)
Contributed(record, target) ==
  CASE target = "drift" ->
         Len(SelectSeq(LogOf(record, "emotion"),
                       LAMBDA e : e.outcome = "returned" /\ IsFinite(e.ret.bias)))
    [] target = "emotion" ->
         Len(SelectSeq(LogOf(record, "emotion"),
                       LAMBDA e : e.outcome = "returned" /\ IsFinite(e.ret.delta)))
    [] target = "glyph" ->
         Len(SelectSeq(LogOf(record, "glyph"),
                       LAMBDA e : e.outcome = "returned" /\ sanitizeStrings(e.ret.add) # <<>>))

\* the telemetry of a target counts the entries of the published vector
TelemetryCountsVector(snapshot, target) ==
  LET telemetry == snapshot.telemetry[target]
      vector    == snapshot.vectors[target]
  IN  /\ telemetry.activeCount = CountNonZero(vector)
      /\ telemetry.activeCount = Len(getActiveIndices(target, snapshot))
      /\ telemetry.vectorLength = Len(vector)
      /\ telemetry.density =
           IF Len(vector) = 0 THEN 0
           ELSE NumDiv(CountNonZero(vector) * Scale, Len(vector) * Scale)

BaselineOf(r, target) ==
  LET baseline == Config(Rt(r).cfg).baselineSparsity
  IN  IF baseline # None /\ target \in DOMAIN baseline[1].targets
      THEN Some(baseline[1].targets[target]) ELSE None

\* the indices (from 0) of the non-zero entries of a vector
LiveIndices(vector) == {k - 1 : k \in {j \in 1..Len(vector) : vector[j] # 0}}

\* the distinct baseline indices, negative ones counted as index 0
BaselineIndices(b) ==
  {IF b.activeIndices[k] < 0 THEN 0 ELSE b.activeIndices[k] : k \in 1..Len(b.activeIndices)}

\* C14: when a baseline is supplied for a target, the telemetry of that target
\* reports baselineDensity, densityDeltaFromBaseline = density - baselineDensity,
\* baselineActiveCount = the number of distinct sanitized baseline indices,
\* missingBaselineActivations = the number of baseline indices that are not
\* live and unexpectedActivations = the number of live indices not in the
\* baseline; the baseline is only read: every evaluate in progress and every
\* published snapshot carries the baseline the runtime was created with.
C14_BaselineDeviation ==
  /\ \A r \in Runtimes : \A i \in 1..Len(History(r)) : \A target \in Targets :
       BaselineOf(r, target) # None =>
         LET b         == BaselineOf(r, target)[1]
             telemetry == History(r)[i].snapshot.telemetry[target]
             live      == LiveIndices(History(r)[i].snapshot.vectors[target])
         IN  /\ telemetry.baselineDensity = b.density
             /\ telemetry.densityDeltaFromBaseline = telemetry.density - b.density
             /\ telemetry.baselineActiveCount = Cardinality(BaselineIndices(b))
             /\ telemetry.missingBaselineActivations = Cardinality(BaselineIndices(b) \ live)
             /\ telemetry.unexpectedActivations = Cardinality(live \ BaselineIndices(b))
  /\ \A r \in Runtimes : \A i \in 1..Len(History(r)) :
       History(r)[i].snapshot.baseline = Config(Rt(r).cfg).baselineSparsity
  /\ \A k \in 1..Len(stack) :
       stack[k].baselineSnapshot = Config(runtimes[stack[k].rt][1].cfg).baselineSparsity

\* a published snapshot whose emotion baseline lists an index twice, misses two
\* baseline activations and has one live index outside the baseline
C14_Witness ==
  \E r \in Runtimes : \E i \in 1..Len(History(r)) :
    /\ BaselineOf(r, "emotion") # None
    /\ Len(BaselineOf(r, "emotion")[1].activeIndices)
         > Cardinality(BaselineIndices(BaselineOf(r, "emotion")[1]))
    /\ History(r)[i].snapshot.telemetry.emotion.missingBaselineActivations > 0
    /\ History(r)[i].snapshot.telemetry.emotion.unexpectedActivations > 0
    /\ History(r)[i].snapshot.telemetry.emotion.densityDeltaFromBaseline > 0


\* how often a tag occurs in a rationale
TagCount(rationale, tag) == Cardinality({k \in 1..Len(rationale) : rationale[k] = tag})

\* the blended bloom probability plus the plugin adjustments, before any clamp
BloomUnclamped(record, rt) ==
  NumAdd(BloomBaseProbability(record.input.bloom, rt.contract,
                              computeDrift(record.input.drift, rt.contract, driftBias(rt))),
         ReduceAdd(0, record.output.bloom.clamps.adjustments))

\* C15 as stated: whenever the bloom probability required clamping (the blended
\* value plus plugin adjustments lay outside the floor/ceiling envelope or
\* outside the contract bloom range), or the final probability lies exactly on
\* a boundary, bloom.rationale holds 'clamp-enforced' exactly once; when nothing
\* was clamped and no boundary was hit the tag is absent.
C15_AsStated ==
  \A r \in Runtimes : \A i \in 1..Len(History(r)) :
    LET record   == History(r)[i]
        contract == Rt(r).contract
        bloom    == record.output.bloom
        range    == contract.clampPolicy.bloom
        raw      == BloomUnclamped(record, Rt(r))
        clamped  == \/ ~InRange(raw, [min |-> bloom.clamps.floor, max |-> bloom.clamps.ceiling])
                    \/ ~InRange(raw, range)
        boundary == bloom.probability \in
                      {bloom.clamps.floor, bloom.clamps.ceiling, range.min, range.max}
    IN  TagCount(bloom.rationale, "clamp-enforced") = IF clamped \/ boundary THEN 1 ELSE 0


Channels == {"drift", "emotion"}

\* the budget of a signal
BudgetOf(contract, target) ==
  IF target = "drift" THEN contract.maxActiveChannelsDrift
  ELSE contract.maxActiveChannelsEmotion

\* entry j goes before entry i: larger magnitude, or the same and a lower index
Outranks(values, j, i) ==
  \/ Abs(values[j]) > Abs(values[i])
  \/ Abs(values[j]) = Abs(values[i]) /\ j < i

\* the entries a budget of N keeps: those outranked by fewer than N others
BudgetKeep(values, N) ==
  IF N = Undefined THEN 1..Len(values)
  ELSE {i \in 1..Len(values) :
          Cardinality({j \in 1..Len(values) : Outranks(values, j, i)}) < N}

\* C16: budgeting a contribution vector with budget N keeps at most N entries,
\* chosen by descending absolute magnitude with the lower index winning a tie,
\* sets every other entry to zero, keeps the vector length and reports exactly
\* the original indices of the surviving non-zero entries; with N undefined
\* nothing is zeroed, with N <= 0 everything is.  For the emotion contributions
\* 0.75, 0.45, -0.55 and N = 2 exactly the channels of 0.75 and -0.55 survive,
\* the 0.45 channel is zero and the emotion activeCount is 2.
C16_BudgetKeepsLargest ==
  /\ \A r \in Runtimes : \A i \in 1..Len(History(r)) : \A target \in Channels :
       LET record  == History(r)[i]
           values  == record.gates[target].cooled
           limited == record.gates[target].limited
           N       == BudgetOf(Rt(r).contract, target)
           keep    == BudgetKeep(values, N)
       IN  /\ N # Undefined => Cardinality(keep) <= MathMax(0, N)
           /\ Len(limited.vector) = Len(values)
           /\ \A k \in 1..Len(values) :
                limited.vector[k] = IF k \in keep THEN values[k] ELSE 0
           /\ Len(limited.activeIndices) = CountNonZero(limited.vector)
           /\ SeqToSet(limited.activeIndices) = LiveIndices(limited.vector)
           /\ \A a, b \in 1..Len(limited.activeIndices) :
                a < b => limited.activeIndices[a] < limited.activeIndices[b]
           /\ record.snapshot.vectors[target] = limited.vector
           /\ (/\ target = "emotion"
               /\ N = 2
               /\ record.input = BaseInput
               /\ record.collected.emotion.deltaAdjustments = <<750, 450, -550>>
               /\ \A k \in 1..Len(record.gates.emotion.ensured) :
                    record.gates.emotion.ensured[k] = 0)
                => /\ LiveIndices(limited.vector) = {0, 2}
                   /\ record.snapshot.telemetry.emotion.activeCount = 2
  /\ limitActiveChannels(<<750, 450, -550>>, 2).vector = <<750, 0, -550>>

\* an evaluate whose budget kept the first of two non-zero contributions of
\* equal magnitude and zeroed the second
C16_Witness ==
  \E r \in Runtimes : \E i \in 1..Len(History(r)) : \E target \in Channels :
    LET values  == History(r)[i].gates[target].cooled
        limited == History(r)[i].gates[target].limited
        N       == BudgetOf(Rt(r).contract, target)
    IN  /\ N # Undefined
        /\ N > 0
        /\ \E a, b \in 1..Len(values) :
             /\ a < b
             /\ values[a] # 0
             /\ Abs(values[a]) = Abs(values[b])
             /\ limited.vector[a] # 0
             /\ limited.vector[b] = 0

\* an evaluate with budget 0 that zeroed a non-zero contribution
C16_WitnessZeroBudget ==
  \E r \in Runtimes : \E i \in 1..Len(History(r)) : \E target \in Channels :
    /\ BudgetOf(Rt(r).contract, target) # Undefined
    /\ BudgetOf(Rt(r).contract, target) <= 0
    /\ CountNonZero(History(r)[i].gates[target].cooled) > 0
    /\ CountNonZero(History(r)[i].gates[target].limited.vector) = 0

\* the evaluate of the example: contributions 0.75, 0.45, -0.55, budget 2
C16_WitnessExample ==
  \E r \in Runtimes : \E i \in 1..Len(History(r)) :
    /\ Rt(r).contract.maxActiveChannelsEmotion = 2
    /\ History(r)[i].collected.emotion.deltaAdjustments = <<750, 450, -550>>
    /\ LiveIndices(History(r)[i].snapshot.vectors.emotion) = {0, 2}


\* the contributions of a signal as the cooldown pass receives them: the
\* collected values after the sparsity policy and the bloom gate
BeforeCooldown(r, record, target) ==
  applyBloomUpdateGate(
    applyReasoncoreSparsityResult(
      IF target = "drift" THEN record.collected.emotion.biases
      ELSE record.collected.emotion.deltaAdjustments,
      Some(record.gates[target].weights), Config(Rt(r).cfg).sparsityPolicy).values,
    record.output.bloom.probability, record.input.bloom, Rt(r).contract)

\* C17 as stated: within one evaluate the cooldown pass comes after budgeting:
\* the surviving drift (emotion) channels are selected by the magnitude of the
\* contribution before any cooldown penalty, and the factor 1 - cooldown[i] is
\* applied to the values of the survivors only, so the accumulated cooldown of
\* a channel never changes which channels survive the budget.
C17_AsStated ==
  \A r \in Runtimes : \A i \in 1..Len(History(r)) : \A target \in Channels :
    LET record == History(r)[i]
        gate   == record.gates[target]
        keep   == BudgetKeep(BeforeCooldown(r, record, target),
                             BudgetOf(Rt(r).contract, target))
    IN  /\ gate.cooled = applyCooldownToValues(BeforeCooldown(r, record, target),
                                               gate.ensured).values
        /\ \A k \in 1..Len(gate.cooled) :
             gate.limited.vector[k] = IF k \in keep THEN gate.cooled[k] ELSE 0


\* the cooldown vector of a signal that a record's evaluate left behind
CooldownsOf(record, target) ==
  IF target = "drift" THEN record.driftCooldowns ELSE record.emotionCooldowns

\* the cooldown vector of a signal that the i-th finished evaluate found
CooldownsBefore(r, i, target) ==
  IF i = 1 THEN <<>> ELSE CooldownsOf(History(r)[i - 1], target)

\* C18: every entry of driftCooldowns and emotionCooldowns lies in [0, 1];
\* each tick updates every entry c, with m = min(1, |drift value|), to
\* max(0, c - (0.05 + 0.15 m)) for a channel that was not active and to
\* min(1, max(0, c - (0.05 + 0.15 m)) + 0.25 + 0.5 m) for one that was; the
\* vectors are padded with 0 when more contributions arrive than in earlier
\* ticks and never shrink.
C18_CooldownsDecayAndSpike ==
  /\ \A r \in Runtimes : Exists(r) =>
       /\ \A k \in 1..Len(Rt(r).driftCooldowns) : InRange(Rt(r).driftCooldowns[k], UNIT_RANGE)
       /\ \A k \in 1..Len(Rt(r).emotionCooldowns) :
            InRange(Rt(r).emotionCooldowns[k], UNIT_RANGE)
       /\ Len(History(r)) > 0 =>
            \A target \in Channels :
              CooldownsOf(History(r)[Len(History(r))], target) =
                IF target = "drift" THEN Rt(r).driftCooldowns ELSE Rt(r).emotionCooldowns
  /\ \A r \in Runtimes : \A i \in 1..Len(History(r)) : \A target \in Channels :
       LET record == History(r)[i]
           gate   == record.gates[target]
           before == CooldownsBefore(r, i, target)
           after  == CooldownsOf(record, target)
           m      == MathMin(Scale, Abs(computeDrift(record.input.drift, Rt(r).contract,
                                                     driftBias(Rt(r))).value))
           decay  == 50 + NumMul(m, 150)
           spike  == 250 + NumMul(m, 500)
           c(k)   == IF k <= Len(before) THEN before[k] ELSE 0
       IN  /\ Len(after) = MathMax(Len(before), Len(gate.cooled))
           /\ \A k \in 1..Len(after) :
                /\ InRange(after[k], UNIT_RANGE)
                /\ after[k] =
                     IF k <= Len(gate.limited.vector) /\ gate.limited.vector[k] # 0
                     THEN MathMin(Scale, MathMax(0, c(k) - decay) + spike)
                     ELSE MathMax(0, c(k) - decay)

\* a runtime whose cooldown vector grew from one tick to the next, with an
\* entry that reached 1 on an active channel and an entry of an inactive
\* channel that decayed
C18_Witness ==
  \E r \in Runtimes : \E target \in Channels :
    /\ \E i \in 2..Len(History(r)) :
         /\ Len(CooldownsOf(History(r)[i], target)) > Len(CooldownsBefore(r, i, target))
         /\ Len(CooldownsBefore(r, i, target)) > 0
    /\ \E i \in 2..Len(History(r)) :
         \E k \in 1..Len(CooldownsBefore(r, i, target)) :
           /\ History(r)[i].gates[target].limited.vector[k] # 0
           /\ CooldownsOf(History(r)[i], target)[k] = Scale
    /\ \E i \in 2..Len(History(r)) :
         \E k \in 1..Len(CooldownsBefore(r, i, target)) :
           /\ History(r)[i].gates[target].limited.vector[k] = 0
           /\ CooldownsBefore(r, i, target)[k] > CooldownsOf(History(r)[i], target)[k]


\* the snapshot a run...Hooks call of an evaluate hands to withSparsitySnapshot,
\* or the latest one when it hands none (line 128)
ScopeSnapshot(f) ==
  IF f.hookSnapshot # None THEN f.hookSnapshot[1] ELSE latestSparseSnapshot

\* entering a scope: the depth grows by one, the supplied snapshot becomes the
\* active one, and the scope remembers the values it found
ScopeEntered ==
  Len(stack') = Len(stack) + 1 =>
    /\ activeSnapshotDepth' = activeSnapshotDepth + 1
    /\ activeSparseSnapshot' = ScopeSnapshot(stack'[Len(stack')])
    /\ stack'[Len(stack')].previous = activeSparseSnapshot
    /\ stack'[Len(stack')].previousDepth = activeSnapshotDepth

\* leaving the scope of an evaluate: depth and active snapshot are those of the
\* entry; an outermost evaluate that returns then publishes, which makes its
\* new snapshot the active one
ScopeLeft ==
  Len(stack') < Len(stack) =>
    LET f == stack[Len(stack') + 1]
    IN  /\ activeSnapshotDepth' = f.previousDepth
        /\ activeSparseSnapshot' =
             IF f.previousDepth = 0 /\ ~lastReturn'[1].threw
             THEN latestSparseSnapshot' ELSE f.previous

\* while an evaluate stays the innermost one: a hook call changes neither
\* depth nor active snapshot; between two passes the scope is left and entered
\* again with the same supplied snapshot
ScopeKept ==
  (Len(stack') = Len(stack) /\ stack # <<>>) =>
    /\ activeSnapshotDepth' = activeSnapshotDepth
    /\ activeSparseSnapshot' =
         IF stack'[Len(stack)].pass = Top.pass THEN activeSparseSnapshot
         ELSE ScopeSnapshot(Top)

Seen(snapshot) ==
  [ vectors |-> snapshot.vectors, telemetry |-> getSparsityTelemetry(snapshot),
    origin |-> snapshot.origin ]

\* what a hook read is the empty snapshot or one a finished evaluate published
Complete(seen) ==
  \/ seen.origin = None /\ seen.vectors = EmptyMap /\ seen.telemetry = EmptyMap
  \/ \E r \in Runtimes : \E i \in 1..Len(History(r)) :
       Seen(History(r)[i].snapshot) = seen

LastPublished ==
  IF lastReturn = None \/ lastReturn[1].threw THEN EMPTY_SNAPSHOT
  ELSE History(lastReturn[1].rt)[Len(History(lastReturn[1].rt))].snapshot

\* C21, as the claim states it: the process-wide latest snapshot slot
\* changes only at the end of a top-level evaluate.  While an evaluate is in
\* progress (its hooks running, or an evaluate nested in one of them
\* running or returned) the slot still holds what it held when the
\* top-level evaluate began, and when no evaluate is in progress the
\* accessors read the snapshot published by the top-level evaluate that
\* completed last.
C21_AsStated ==
  /\ stack # <<>> => latestSparseSnapshot = stack[1].previous
  /\ stack = <<>> =>
       resolveSnapshot(activeSparseSnapshot, latestSparseSnapshot,
                       activeSnapshotDepth) = LastPublished

(***************************************************************************)
(* C22: the topk mode of sparsifyWithPolicyResult                          *)
(***************************************************************************)
\* the policy in hand has mode topk, a parameter k, no threshold and no
\* fraction bounds
PlainTopK ==
  /\ sIn # None
  /\ sIn[1].policy.mode = "topk"
  /\ sIn[1].policy.k # Undefined
  /\ sIn[1].policy.threshold = Undefined
  /\ sIn[1].policy.maxActiveFraction = Undefined
  /\ sIn[1].policy.minActiveFraction = Undefined

\* C22: for a policy with mode topk and parameter k (no threshold, no
\* fraction bounds) applied to a vector of n numbers, exactly
\* min(n, max(0, k)) entries are active; every active entry's magnitude is at
\* least every inactive entry's magnitude; of two entries of equal magnitude
\* the one with the larger pseudoRandom(index, seed) is preferred, whatever
\* their array positions; every call with the same values and policy gives
\* the same mask; and the materialized vector equals the input at the active
\* positions and is 0 elsewhere.
C22_TopKSelection ==
  PlainTopK =>
    LET values == sIn[1].values
        policy == sIn[1].policy
        n      == Len(values)
    IN  \A c \in 1..Len(sOut) :
          LET result == sOut[c]
          IN  /\ Len(result.mask) = n
              /\ countActive(result.mask) = MathMin(n, MathMax(0, policy.k))
              /\ \A i, j \in 1..n :
                   result.mask[i] /\ ~result.mask[j] =>
                     /\ MagnitudeOf(values[i]) >= MagnitudeOf(values[j])
                     /\ MagnitudeOf(values[i]) = MagnitudeOf(values[j]) =>
                          pseudoRandom(i - 1, policy.seed) > pseudoRandom(j - 1, policy.seed)
              /\ result.mask = sOut[1].mask
              /\ result.values = [i \in 1..n |-> IF result.mask[i] THEN values[i] ELSE 0]

\* two calls have been made on a vector in which an entry is kept while an
\* entry of the same magnitude earlier in the array is dropped
C22_Witness ==
  /\ PlainTopK
  /\ Len(sOut) >= 2
  /\ \E i, j \in 1..Len(sIn[1].values) :
       /\ i < j
       /\ MagnitudeOf(sIn[1].values[i]) = MagnitudeOf(sIn[1].values[j])
       /\ ~sOut[2].mask[i]
       /\ sOut[2].mask[j]

(***************************************************************************)
(* C23: the fraction pass of sparsifyWithPolicyResult                      *)
(***************************************************************************)
ActiveSet(mask) == {i \in 1..Len(mask) : mask[i]}

\* the largest number of active entries maxActiveFraction allows
FractionLimit(n, f) == IF f = 0 THEN 0 ELSE CeilOfProduct(n, f)

\* the smallest number of active entries minActiveFraction allows
FractionTarget(n, g) == MathMin(n, CeilOfProduct(n, g))

\* the mask the mode selects, before any fraction bound
ModeMask(values, policy) ==
  sparsifyWithPolicyResult(values, [policy EXCEPT !.maxActiveFraction = Undefined,
                                                  !.minActiveFraction = Undefined]).mask

\* the mask after the upper bound alone
TrimmedMask(values, policy) ==
  sparsifyWithPolicyResult(values, [policy EXCEPT !.minActiveFraction = Undefined]).mask

\* C23: after the fraction pass on a vector of length n, for every mode:
\* with maxActiveFraction f at most ceil(n*f) entries are active (none when
\* f = 0), the retained entries being the highest-ranked of those the mode
\* selected; with minActiveFraction g at least min(n, ceil(n*g)) entries are
\* active, obtained by adding the highest-ranked inactive entries, and all n
\* are active when ceil(n*g) >= n; when both are given with g <= f both
\* bounds hold.
C23_FractionBounds ==
  sIn # None =>
    LET values == sIn[1].values
        policy == sIn[1].policy
        n      == Len(values)
        f      == policy.maxActiveFraction
        g      == policy.minActiveFraction
        selected == ActiveSet(ModeMask(values, policy))
        trimmed  == ActiveSet(TrimmedMask(values, policy))
    IN  \A c \in 1..Len(sOut) :
          LET active == ActiveSet(sOut[c].mask)
          IN  /\ Len(sOut[c].mask) = n
              /\ f # Undefined =>
                   /\ Cardinality(trimmed) <= FractionLimit(n, f)
                   /\ trimmed \subseteq selected
                   /\ \A i \in trimmed, j \in selected \ trimmed :
                        RankBefore(values, policy.seed, i, j)
                   /\ Cardinality(selected) <= FractionLimit(n, f) => trimmed = selected
                   /\ g = Undefined \/ g <= f =>
                        Cardinality(active) <= FractionLimit(n, f)
              /\ f = Undefined => trimmed = selected
              /\ g = Undefined => active = trimmed
              /\ g # Undefined =>
                   /\ Cardinality(active) >= FractionTarget(n, g)
                   /\ CeilOfProduct(n, g) >= n => active = 1..n
                   /\ trimmed \subseteq active
                   /\ \A i \in active \ trimmed, j \in (1..n) \ active :
                        RankBefore(values, policy.seed, i, j)
                   /\ Cardinality(trimmed) >= FractionTarget(n, g) => active = trimmed

\* both bounds are given with g <= f and the upper bound has dropped entries
\* the mode selected
C23_Witness ==
  /\ sIn # None
  /\ Len(sOut) >= 1
  /\ sIn[1].policy.maxActiveFraction # Undefined
  /\ sIn[1].policy.minActiveFraction # Undefined
  /\ sIn[1].policy.minActiveFraction <= sIn[1].policy.maxActiveFraction
  /\ sIn[1].policy.minActiveFraction > 0
  /\ ActiveSet(sOut[1].mask) # {}
  /\ ActiveSet(sOut[1].mask) # ActiveSet(ModeMask(sIn[1].values, sIn[1].policy))
  /\ ActiveSet(sOut[1].mask) \subseteq ActiveSet(ModeMask(sIn[1].values, sIn[1].policy))

\* the lower bound has added some, but not all, of the entries the mode left out
C23_WitnessAdded ==
  /\ sIn # None
  /\ Len(sOut) >= 1
  /\ sIn[1].policy.minActiveFraction # Undefined
  /\ ActiveSet(sOut[1].mask) # 1..Len(sIn[1].values)
  /\ ActiveSet(sOut[1].mask) # ActiveSet(TrimmedMask(sIn[1].values, sIn[1].policy))

(***************************************************************************)
(* C24: hook returns are validated and clamped before aggregation          *)
(***************************************************************************)
\* the finite values of one field that the hooks of a pass returned, in
\* registration order
FiniteReturns(record, pass, field) ==
  LET log == SelectSeq(LogOf(record, pass),
                       LAMBDA e : e.outcome = "returned" /\ IsFinite(e.ret[field]))
  IN  [k \in 1..Len(log) |-> log[k].ret[field]]

\* the aggregated array holds the returned values, each clamped to [-bound, bound]
ClampedSlots(slots, returns, bound) ==
  /\ Len(slots) = Len(returns)
  /\ \A k \in 1..Len(slots) :
       /\ -bound <= slots[k] /\ slots[k] <= bound
       /\ slots[k] = MathMax(-bound, MathMin(bound, returns[k]))

\* the emotion hooks' half of C24: deltas in [-1, 1], biases in [-B, B], one
\* slot per plugin that returned a finite value
EmotionSlotsClamped(record, contract) ==
  /\ ClampedSlots(record.collected.emotion.deltaAdjustments,
                  FiniteReturns(record, "emotion", "delta"), Scale)
  /\ ClampedSlots(record.collected.emotion.biases,
                  FiniteReturns(record, "emotion", "bias"),
                  contract.clampPolicy.drift.spikeThreshold)

\* C24, as the claim states it: every numeric field a hook returns is
\* validated and clamped before aggregation.  Every delta collected from a
\* hook, emotion or bloom, lies in [-1, 1]; every bias collected lies in
\* [-B, B], B being the bound given to the host; a field that is not a
\* finite number adds no slot; and the aggregated arrays hold one slot per
\* contributing plugin in registration order.
C24_AsStated ==
  \A r \in Runtimes : \A i \in 1..Len(History(r)) :
    LET record == History(r)[i]
    IN  /\ EmotionSlotsClamped(record, Rt(r).contract)
        /\ ClampedSlots(record.collected.bloom.adjustments,
                        FiniteReturns(record, "bloom", "delta"), Scale)
        /\ record.collected.bloom.floors = FiniteReturns(record, "bloom", "floor")
        /\ record.collected.bloom.ceilings = FiniteReturns(record, "bloom", "ceiling")

(***************************************************************************)
(* C25: the emotion result                                                 *)
(***************************************************************************)
\* the labels the emotion hooks of a finished evaluate returned, in
\* registration order
ReturnedLabels(record) ==
  LET log == SelectSeq(LogOf(record, "emotion"),
                       LAMBDA e : e.outcome = "returned" /\ e.ret.label # "")
  IN  [k \in 1..Len(log) |-> log[k].ret.label]

\* clamp(target) - clamp(baseline) + the sum of the budgeted adjustments
EmotionRawSum(record, contract) ==
  NumAdd(clamp(record.input.emotion.target, contract.emotion.target)
           - clamp(record.input.emotion.baseline, contract.emotion.baseline),
         ReduceAdd(0, record.gates.emotion.limited.values))

\* C25: the emotion result of every evaluate satisfies
\* delta = clamp(clamp(target) - clamp(baseline) + sum of the budgeted
\* adjustments, clampPolicy.emotion); resolution is stabilized iff
\* |delta| < 0.12, muted iff 0.12 <= |delta| < 0.45 and amplified iff
\* |delta| >= 0.45; clampApplied is true iff the final clamp changed the raw
\* sum; and labels is exactly the list of labels the emotion hooks returned,
\* in registration order.
C25_EmotionResult ==
  \A r \in Runtimes : \A i \in 1..Len(History(r)) :
    LET record  == History(r)[i]
        emotion == record.output.emotion
        raw     == EmotionRawSum(record, Rt(r).contract)
    IN  /\ emotion.delta = clamp(raw, Rt(r).contract.clampPolicy.emotion)
        /\ emotion.resolution = "stabilized" <=> Abs(emotion.delta) < 120
        /\ emotion.resolution = "muted" <=>
             120 <= Abs(emotion.delta) /\ Abs(emotion.delta) < 450
        /\ emotion.resolution = "amplified" <=> Abs(emotion.delta) >= 450
        /\ emotion.clampApplied <=> emotion.delta # raw
        /\ emotion.labels = ReturnedLabels(record)

\* a runtime has returned one result whose sum was clamped and one whose sum
\* was not, with plugin adjustments in the sum and labels from two hooks
C25_Witness ==
  \E r \in Runtimes : \E i, j \in 1..Len(History(r)) :
    /\ History(r)[i].output.emotion.clampApplied
    /\ ~History(r)[j].output.emotion.clampApplied
    /\ History(r)[j].output.emotion.resolution # "amplified"
    /\ ReduceAdd(0, History(r)[j].gates.emotion.limited.values) # 0
    /\ Len(History(r)[j].output.emotion.labels) >= 2

(***************************************************************************)
(* C26: the overshoot curl of computeDrift                                 *)
(***************************************************************************)
\* intensity*(1 - anchor) + momentum*0.05 + bias, each term clamped to its
\* contract range
Projected(input, contract, pluginBias) ==
  NumMul(clamp(input.intensity, contract.drift.intensity),
         Scale - clamp(input.anchor, contract.drift.anchor))
    + NumMul(clamp(input.momentum, contract.drift.momentum), 50)
    + clamp(NumAdd(input.bias, pluginBias), contract.drift.bias)

\* projected - clamp(projected)
Overshoot(input, contract, pluginBias) ==
  Projected(input, contract, pluginBias)
    - clamp(Projected(input, contract, pluginBias), contract.clampPolicy.drift)

\* C26: with projected = intensity*(1 - anchor) + momentum*0.05 + bias and
\* delta = projected - clamp(projected): if |delta| exceeds the spike
\* threshold then spikesFiltered and overshootApplied are both true,
\* overshootCurl = -0.25*delta and value = clamp(clamp(projected) +
\* overshootCurl); otherwise value = clamp(projected), both flags are false
\* and overshootCurl = 0.  When the drift computed without plugin bias has no
\* spike and the plugin bias is within the spike threshold, |overshootCurl|
\* of the drift computed with it is at most the spike threshold.
C26_OvershootCurl ==
  dResult # None =>
    LET input      == dIn[1].input
        pluginBias == dIn[1].pluginBias
        driftClamp == DEFAULT_CONTRACT.clampPolicy.drift
        projected  == Projected(input, DEFAULT_CONTRACT, pluginBias)
        delta      == Overshoot(input, DEFAULT_CONTRACT, pluginBias)
        result     == dResult[1]
    IN  /\ Abs(delta) > driftClamp.spikeThreshold =>
             /\ result.spikesFiltered
             /\ result.overshootApplied
             /\ result.overshootCurl = -NumMul(delta, 250)
             /\ result.value = clamp(clamp(projected, driftClamp) + result.overshootCurl,
                                     driftClamp)
        /\ Abs(delta) <= driftClamp.spikeThreshold =>
             /\ result.value = clamp(projected, driftClamp)
             /\ ~result.spikesFiltered
             /\ ~result.overshootApplied
             /\ result.overshootCurl = 0
        /\ ( /\ Abs(Overshoot(input, DEFAULT_CONTRACT, 0)) <= driftClamp.spikeThreshold
             /\ IsFinite(pluginBias)
             /\ Abs(pluginBias) <= driftClamp.spikeThreshold )
           => Abs(result.overshootCurl) <= driftClamp.spikeThreshold

\* a drift without spike that a plugin bias within the threshold has pushed
\* over the threshold
C26_Witness ==
  /\ dResult # None
  /\ IsFinite(dIn[1].pluginBias)
  /\ Abs(dIn[1].pluginBias) <= DEFAULT_CONTRACT.clampPolicy.drift.spikeThreshold
  /\ Abs(Overshoot(dIn[1].input, DEFAULT_CONTRACT, 0))
       <= DEFAULT_CONTRACT.clampPolicy.drift.spikeThreshold
  /\ dResult[1].spikesFiltered
  /\ dResult[1].overshootCurl # 0

(***************************************************************************)
(* C27: the drift loop carries no state between iterations                 *)
(***************************************************************************)
\* C27: the drift loop carries no state from one iteration to the next: every
\* pass after the first leaves the locals as the pass before left them.  So
\* the returned iterations is either 1 or 8 and never a value in between:
\* iterations = 8 exactly when spikesFiltered is true, iterations = 1 exactly
\* when it is false, and spikesFiltered = overshootApplied in every result.
C27_OneOrEightIterations ==
  /\ [](dResult # None =>
          /\ dResult[1].iterations \in {1, MAX_ITERATIONS}
          /\ dResult[1].iterations = MAX_ITERATIONS <=> dResult[1].spikesFiltered
          /\ dResult[1].iterations = 1 <=> ~dResult[1].spikesFiltered
          /\ dResult[1].spikesFiltered = dResult[1].overshootApplied)
  /\ [][dIteration >= 1 => dState' = dState]_vars

\* a run on finite input that went through all 8 passes
C27_Witness ==
  /\ dResult # None
  /\ dResult[1].iterations = MAX_ITERATIONS
  /\ dResult[1].overshootApplied
  /\ IsFinite(dIn[1].input.intensity) /\ IsFinite(dIn[1].input.momentum)
  /\ IsFinite(dIn[1].input.anchor) /\ IsFinite(dIn[1].input.bias)
  /\ IsFinite(dIn[1].pluginBias)

\* a run that returned from its first pass
C27_WitnessFirstPass ==
  /\ dResult # None
  /\ dResult[1].iterations = 1
  /\ ~dResult[1].overshootApplied

(***************************************************************************)
(* C28: bloom does not depend on the emotion or glyph hooks                *)
(***************************************************************************)
\* what the hooks of one pass of a finished evaluate did, in call order
ReturnsOf(record, pass) ==
  [k \in 1..Len(LogOf(record, pass)) |->
     [ outcome |-> LogOf(record, pass)[k].outcome, ret |-> LogOf(record, pass)[k].ret ]]

\* all finished evaluates, as pairs of runtime and position in its history
Finished == {c \in Runtimes \X (1..MaxTicks) : c[2] <= Len(History(c[1]))}

\* C28: the bloom result of an evaluate does not depend on what the emotion
\* hooks or the glyph hooks return: two evaluations under the same options
\* that agree on the input and on the bloom hooks' returns return the same
\* bloom.probability, bloom.clamps and bloom.rationale, whatever the emotion
\* and glyph hooks returned and whatever the final drift and the cooldown
\* state are.
C28_BloomIndependent ==
  \A c, d \in Finished :
    LET a == History(c[1])[c[2]]
        b == History(d[1])[d[2]]
    IN  ( /\ Rt(c[1]).cfg = Rt(d[1]).cfg
          /\ a.input = b.input
          /\ ReturnsOf(a, "bloom") = ReturnsOf(b, "bloom") )
        => /\ a.output.bloom.probability = b.output.bloom.probability
           /\ a.output.bloom.clamps = b.output.bloom.clamps
           /\ a.output.bloom.rationale = b.output.bloom.rationale

\* two evaluations with the same input and the same bloom hook returns, one
\* of them applied, whose emotion hooks returned different deltas and biases
\* and which ended with different drift and different emotion cooldowns
C28_Witness ==
  \E c, d \in Finished :
    LET a == History(c[1])[c[2]]
        b == History(d[1])[d[2]]
    IN  /\ a.input = b.input
        /\ ReturnsOf(a, "bloom") = ReturnsOf(b, "bloom")
        /\ \E k \in 1..Len(ReturnsOf(a, "bloom")) :
             ReturnsOf(a, "bloom")[k].outcome = "returned"
        /\ a.collected.emotion.deltaAdjustments # b.collected.emotion.deltaAdjustments
        /\ a.collected.emotion.biases # b.collected.emotion.biases
        /\ a.output.drift # b.output.drift
        /\ a.emotionCooldowns # b.emotionCooldowns

(***************************************************************************)
(* C29: the cooldown of a channel that contributes at every tick           *)
(***************************************************************************)
\* channel i is active at tick t: it survived cooldown and budget
GateActive(t, i) == gTrace[t].limited.vector[i] # 0

\* the cooldown of channel i when tick t begins, and when it ends
GateBefore(t, i) == gTrace[t].ensured[i]
GateAfter(t, i) == gTrace[t].cooldowns[i]

\* channel i receives a non-zero contribution and has fitted the budget at
\* every tick so far: whenever the cooldown left it non-zero it was kept
Steady(i) ==
  /\ gIn # None
  /\ i \in 1..Len(gIn[1].values)
  /\ gIn[1].values[i] # 0
  /\ \A t \in 1..Len(gTrace) : gTrace[t].cooled[i] # 0 => GateActive(t, i)

\* the cooldown of channel i has reached 1 by the end of tick n
SaturatedBy(n, i) == \E t \in 1..n : GateAfter(t, i) = Scale

\* C29: for a channel that receives the same non-zero contribution at every
\* tick and always fits the budget, the cooldown strictly increases on every
\* tick it is active until it saturates at 1, which it does after finitely
\* many ticks (at most 5: a tick adds at least 0.25 to a cooldown of 0 and at
\* least 0.2 to any other); on a tick that begins with the cooldown at 1 the
\* channel's value is multiplied to zero and the channel is not active; on
\* such a tick the cooldown decays below 1, so the channel is never zeroed on
\* two consecutive ticks and is active again on the following tick.
C29_CooldownCycle ==
  \A i \in 1..3 : Steady(i) =>
    /\ Len(gTrace) >= 5 => SaturatedBy(5, i)
    /\ \A t \in 1..Len(gTrace) :
         /\ GateBefore(t, i) < Scale =>
              /\ GateActive(t, i)
              /\ GateAfter(t, i) > GateBefore(t, i)
              /\ GateAfter(t, i) <= Scale
         /\ GateBefore(t, i) = Scale =>
              /\ gTrace[t].cooled[i] = 0
              /\ ~GateActive(t, i)
              /\ GateAfter(t, i) < Scale
              /\ t > 1 => GateActive(t - 1, i)
              /\ t < Len(gTrace) => GateActive(t + 1, i)

\* a channel that has climbed to 1 over several ticks, was zeroed on the next
\* tick and was active again on the one after
C29_Witness ==
  \E i \in 1..3 : \E t \in 3..Len(gTrace) :
    /\ Steady(i)
    /\ t < Len(gTrace)
    /\ GateBefore(t - 1, i) > 0 /\ GateBefore(t - 1, i) < Scale
    /\ GateBefore(t, i) = Scale
    /\ ~GateActive(t, i)
    /\ GateActive(t + 1, i)

(***************************************************************************)
(* C30: two runtimes whose evaluate calls interleave                       *)
(***************************************************************************)
\* the evaluates so far ran one after the other: none was started by a hook
\* and none is in progress inside another
Interleaved ==
  /\ Len(stack) <= 1
  /\ \A c \in Finished : ~History(c[1])[c[2]].overlapped

\* the finished evaluates that began before tick n
FinishedBefore(n) == {c \in Finished : History(c[1])[c[2]].tick < n}

\* the snapshot published by the evaluate, of either runtime, that ran last
\* before tick n; the empty snapshot if there is none
PublishedBefore(n) ==
  IF FinishedBefore(n) = {} THEN EMPTY_SNAPSHOT
  ELSE LET c == CHOOSE c \in FinishedBefore(n) :
                  \A d \in FinishedBefore(n) :
                    History(d[1])[d[2]].tick <= History(c[1])[c[2]].tick
       IN  History(c[1])[c[2]].snapshot

\* C30: with two runtimes in one process whose evaluate calls interleave in
\* any order, from its second evaluate on the plugins of a runtime read that
\* runtime's own previous snapshot, even if the other runtime evaluated in
\* between; on the first evaluate of a runtime without baseline its plugins
\* read the process-wide latest snapshot, the one published by whichever
\* runtime evaluated last (the empty snapshot if none has); and after any
\* evaluate has returned, the accessors called outside an evaluation read the
\* snapshot of the runtime that evaluated last.
C30_InterleavedRuntimes ==
  Interleaved =>
    /\ \A c \in Finished :
         LET r      == c[1]
             k      == c[2]
             record == History(r)[k]
         IN  /\ k >= 2 => SeesOnly(record.hookLog, History(r)[k - 1].snapshot)
             /\ (k = 1 /\ Config(Rt(r).cfg).baselineSparsity = None) =>
                   SeesOnly(record.hookLog, PublishedBefore(record.tick))
    /\ stack = <<>> =>
         /\ resolveSnapshot(activeSparseSnapshot, latestSparseSnapshot,
                            activeSnapshotDepth) = PublishedBefore(ticks + 1)
         /\ lastReturn # None =>
              PublishedBefore(ticks + 1).origin
                = Some(<<lastReturn[1].rt, lastReturn[1].callNo>>)

\* A evaluated, then B for the first time, then A again: B's hooks read what
\* A had published, and A's hooks read A's own snapshot although B had
\* published in between
C30_Witness ==
  /\ Interleaved
  /\ stack = <<>>
  /\ Len(History("A")) = 2
  /\ Len(History("B")) = 1
  /\ History("A")[1].tick = 1
  /\ History("B")[1].tick = 2
  /\ History("A")[2].tick = 3
  /\ Config(Rt("B").cfg).baselineSparsity = None
  /\ History("B")[1].hookLog # <<>>
  /\ \A k \in 1..Len(History("B")[1].hookLog) :
       History("B")[1].hookLog[k].seen.origin = Some(<<"A", 1>>)
  /\ \A k \in 1..Len(History("A")[2].hookLog) :
       History("A")[2].hookLog[k].seen.origin = Some(<<"A", 1>>)
  /\ latestSparseSnapshot.origin = Some(<<"A", 2>>)

=============================================================================
